---- MODULE Spec2Model ----
(***************************************************************************)
(* Chroma: Game Boy core.  Model of the memory bus (core/Memory.cpp), the  *)
(* timer (core/Timer.cpp) and the per-machine-cycle hardware tick          *)
(* (gb/core/GameBoy.cpp).  One machine cycle is a CPU bus access followed  *)
(* by one HardwareTick.  The CPU operations that set the flags and the     *)
(* CPU mode (gb/cpu/Ops.cpp), the frame loop of the emulator               *)
(* (GameBoy::EmulatorLoop) and the save path (emu/ParseOptions.cpp) are    *)
(* modelled on their own variables, and so are the ARM operations of the   *)
(* 32-bit core (gba/cpu/ArmOps.cpp).                                       *)
(***************************************************************************)
EXTENDS Integers, Naturals, Sequences, FiniteSets, TLC

VARIABLES
    mem,     \* fields of the Memory object
    timer,   \* fields of the Timer object
    bus,     \* the CPU's bus access of the current machine cycle
    tcall,   \* what the last UpdateTimer call did
    dcall,   \* what the UpdateOAM_DMA calls did since 0xFF46 was written
    phase,   \* "cpu": the CPU accesses the bus next, "tick": the tick runs next
    ticks,   \* machine cycles elapsed
    cpu,     \* fields of the Cpu object
    emu,     \* fields of the GameBoy object and locals of EmulatorLoop
    opts,    \* the ROM path given on the command line and its save path
    arm      \* fields of the ARM7TDMI Cpu object and the memory it accesses

vars == <<mem, timer, bus, tcall, dcall, phase, ticks, cpu, emu, opts, arm>>

----------------------------------------------------------------------------
(* Bounds of the model *)

\* machine cycles explored from power-on in the timer specification
MaxTimerTicks == 7
\* machine cycles within which the CPU writes the DMA-start register
ArmWindow == 5
\* machine cycles within which the LCD changes mode
LcdWindow == 3
\* last UpdateOAM_DMA calls of a transfer around which the CPU accesses the bus
EndWindow == 2
\* machine cycles explored after the last write of the DMA-start register
MaxDmaTicks == 164

----------------------------------------------------------------------------
(* Fixed-width arithmetic *)

RECURSIVE BitAndN(_, _, _)
BitAndN(a, b, n) ==
    IF n = 0 THEN 0
    ELSE (IF a % 2 = 1 /\ b % 2 = 1 THEN 1 ELSE 0)
         + 2 * BitAndN(a \div 2, b \div 2, n - 1)

BitAnd(a, b) == BitAndN(a, b, 16)

RECURSIVE BitOrN(_, _, _)
BitOrN(a, b, n) ==
    IF n = 0 THEN 0
    ELSE (IF a % 2 = 1 \/ b % 2 = 1 THEN 1 ELSE 0)
         + 2 * BitOrN(a \div 2, b \div 2, n - 1)

BitOr(a, b) == BitOrN(a, b, 16)

U8(x) == x % 256
U16(x) == x % 65536

\* unsigned int: a 32-bit value kept as <<high half, low half>> of 16 bits
U32Of(x) == <<(x \div 65536) % 65536, x % 65536>>

\* p - 1 modulo 2^32
U32Dec(p) ==
    IF p[2] > 0 THEN <<p[1], p[2] - 1>>
    ELSE <<(p[1] + 65535) % 65536, 65535>>

\* 0x4000 * p modulo 2^32
U32Mul16384(p) == <<(16384 * (p[1] % 4) + (p[2] \div 4)) % 65536, 16384 * (p[2] % 4)>>

\* p + a modulo 2^32, for a 16-bit a
U32Add(p, a) == <<(p[1] + ((p[2] + a) \div 65536)) % 65536, (p[2] + a) % 65536>>

\* the value as an index of a container; an index of 2^30 or more lies past
\* the end of every container of the machine and is kept as 2^30
U32Index(p) == IF p[1] < 16384 THEN 65536 * p[1] + p[2] ELSE 1073741824

\* a zero-initialised std::vector<u8>, kept as the map of the bytes written
VecGet(v, i) == IF i \in DOMAIN v THEN v[i] ELSE 0
VecSet(v, i, b) == [j \in (DOMAIN v) \cup {i} |-> IF j = i THEN b ELSE v[j]]
EmptyVec == [j \in {} |-> 0]

----------------------------------------------------------------------------
(* Cartridge ROM image: num_rom_banks banks of 0x4000 bytes *)

\* the image file handed to the constructor
RomByte(i) == (7 * i + 3 * (i \div 16384) + 1) % 256

\* Memory::rom, kept as the map of the bytes that differ from the image file
RomAt(m, i) == IF i \in DOMAIN m.rom THEN m.rom[i] ELSE RomByte(i)

----------------------------------------------------------------------------
(* Memory: I/O registers *)

\* the registers that only store a byte (serial, sound, wave RAM, LCD, KEY1,
\* HDMA) are kept in m.io under their address.  IoWriteMask is the mask
\* WriteIORegisters applies to the byte it stores, -1 for an address that
\* stores nothing this way
IoWriteMask(m, addr) ==
    CASE addr = 65282 -> IF m.game_mode = "CGB" THEN 131 ELSE 129     \* SC
      [] addr = 65296 -> 127                                          \* NR10
      [] addr \in {65300, 65305, 65310} -> 199                        \* NR14 NR24 NR34
      [] addr = 65306 -> 128                                          \* NR30
      [] addr = 65308 -> 96                                           \* NR32
      [] addr = 65312 -> 31                                           \* NR41
      [] addr = 65315 -> 192                                          \* NR44
      [] addr = 65318 -> 143                                          \* NR52
      [] addr = 65357 -> 1                                            \* KEY1
      [] addr \in {65362, 65364} -> 240                               \* HDMA2 HDMA4
      [] addr = 65363 -> 31                                           \* HDMA3
      [] addr \in {65281, 65297, 65298, 65299, 65302, 65303, 65304, 65307,
                   65309, 65313, 65314, 65316, 65317, 65344, 65346, 65347,
                   65349, 65351, 65352, 65353, 65354, 65355, 65361, 65365}
            \cup (65328 .. 65343) -> 255
      [] OTHER -> -1

\* the bits ReadIORegisters sets in the byte it returns for a register kept
\* in m.io, -1 for an address that is not read from m.io
IoReadOnes(m, addr) ==
    CASE addr = 65282 -> IF m.game_mode = "CGB" THEN 124 ELSE 126     \* SC
      [] addr = 65296 -> 128                                          \* NR10
      [] addr \in {65297, 65302} -> 63                                \* NR11 NR21
      [] addr \in {65300, 65305, 65310, 65315} -> 191                 \* NRx4
      [] addr = 65306 -> 127                                          \* NR30
      [] addr = 65308 -> 159                                          \* NR32
      [] addr = 65312 -> 224                                          \* NR41
      [] addr = 65318 -> 112                                          \* NR52
      [] addr = 65357 -> IF m.game_mode = "CGB" THEN 126 ELSE 255     \* KEY1
      [] addr = 65365 -> IF m.game_mode = "CGB" THEN 0 ELSE 255       \* HDMA5
      [] addr \in {65281, 65298, 65299, 65303, 65304, 65307, 65309, 65313,
                   65314, 65316, 65317, 65344, 65346, 65347, 65348, 65349,
                   65351, 65352, 65353, 65354, 65355}
            \cup (65328 .. 65343) -> 0
      [] OTHER -> -1

ReadIORegisters(m, addr) ==
    CASE addr = 65280 -> BitOr(m.joypad, 192)                  \* P1
      [] addr = 65284 -> m.divider \div 256                    \* DIV
      [] addr = 65285 -> m.timer_counter                       \* TIMA
      [] addr = 65286 -> m.timer_modulo                        \* TMA
      [] addr = 65287 -> BitOr(m.timer_control, 248)           \* TAC
      [] addr = 65295 -> BitOr(m.interrupt_flags, 224)         \* IF
      [] addr = 65345 -> BitOr(m.stat, 128)                    \* STAT
      [] addr = 65350 -> m.oam_dma_start                       \* DMA
      [] addr = 65359 ->                                       \* VBK
            IF m.console = "CGB"
            THEN (IF m.game_mode = "DMG" THEN 254 ELSE BitOr(m.vram_bank_num, 254))
            ELSE 255
      [] addr = 65392 ->                                       \* SVBK
            IF m.game_mode = "DMG" THEN 255 ELSE BitOr(m.wram_bank_num, 248)
      [] IoReadOnes(m, addr) >= 0 ->
            BitOr(VecGet(m.io, addr), IoReadOnes(m, addr))
      [] OTHER -> 255

\* a write of DIV that clears only the visible high byte
WriteDIV_HighByteOnly(m, data) == [m EXCEPT !.divider = m.divider % 256]

\* case 0xFF04: DIV is set to zero on any write
WriteDIV(m, data) == [m EXCEPT !.divider = 0]

\* a write of IF that leaves IF_written_this_cycle alone
WriteIF_NoFlag(m, data) == [m EXCEPT !.interrupt_flags = BitAnd(data, 31)]

\* case 0xFF0F: the written value stays in IF for this machine cycle
WriteIF(m, data) ==
    [m EXCEPT !.interrupt_flags = BitAnd(data, 31),
              !.IF_written_this_cycle = TRUE]

\* a write of DMA that releases the bus of the transfer it replaces
WriteDMA_Unblocks(m, data) ==
    [m EXCEPT !.oam_dma_start = data,
              !.state_oam_dma = "RegWritten",
              !.dma_blocking_memory = FALSE]

\* case 0xFF46: arms an OAM DMA
WriteDMA(m, data) ==
    [m EXCEPT !.oam_dma_start = data,
              !.state_oam_dma = "RegWritten"]

WriteIORegisters(m, addr, data) ==
    CASE addr = 65280 -> [m EXCEPT !.joypad = BitAnd(data, 48)]
      [] addr = 65284 -> WriteDIV(m, data)
      [] addr = 65285 -> [m EXCEPT !.timer_counter = data]
      [] addr = 65286 -> [m EXCEPT !.timer_modulo = data]
      [] addr = 65287 -> [m EXCEPT !.timer_control = BitAnd(data, 7)]
      [] addr = 65295 -> WriteIF(m, data)
      [] addr = 65345 -> [m EXCEPT !.stat = BitOr(BitAnd(data, 120), BitAnd(m.stat, 7))]
      [] addr = 65350 -> WriteDMA(m, data)
      [] addr = 65359 -> IF m.game_mode = "CGB"
                         THEN [m EXCEPT !.vram_bank_num = BitAnd(data, 1)] ELSE m
      [] addr = 65392 -> IF m.game_mode = "CGB"
                         THEN [m EXCEPT !.wram_bank_num = BitAnd(data, 7)] ELSE m
      [] IoWriteMask(m, addr) >= 0 ->
            [m EXCEPT !.io = VecSet(@, addr, BitAnd(data, IoWriteMask(m, addr)))]
      [] OTHER -> m

----------------------------------------------------------------------------
(* Memory: cartridge RAM and MBC registers *)

\* ext_ram.size(): the vector is allocated only when the cart declares RAM
ExtRamSize(m) == IF m.ext_ram_present THEN m.ram_size ELSE 0

\* u16 adjusted_addr = addr - 0xA000 + 0x2000*ram_bank_num
AdjustedAddr(m, addr) == U16(addr - 40960 + 8192 * m.ram_bank_num)

\* MBC5 carts with rumble: bit 3 of the RAM bank register is not a bank bit
AdjustedAddrRumble(m, addr) == U16(addr - 40960 + 8192 * BitAnd(m.ram_bank_num, 7))

\* a read that does not check the bounds of the RAM vector
ReadExtRamAt_Unchecked(m, a) == VecGet(m.ext_ram, a)

\* out of bounds reads return 0xFF
ReadExtRamAt(m, a) == IF a < ExtRamSize(m) THEN VecGet(m.ext_ram, a) ELSE 255

\* out of bounds writes are ignored
WriteExtRamAt(m, a, data) ==
    IF a < ExtRamSize(m) THEN [m EXCEPT !.ext_ram = VecSet(@, a, data)] ELSE m

ReadRTC(m) ==
    CASE m.ram_bank_num = 8 -> m.rtc_seconds
      [] m.ram_bank_num = 9 -> m.rtc_minutes
      [] m.ram_bank_num = 10 -> m.rtc_hours
      [] m.ram_bank_num = 11 -> m.rtc_day
      [] m.ram_bank_num = 12 -> BitOr(m.rtc_flags, 62)
      [] OTHER -> 255

WriteRTC(m, data) ==
    CASE m.ram_bank_num = 8 -> [m EXCEPT !.rtc_seconds = data % 60]
      [] m.ram_bank_num = 9 -> [m EXCEPT !.rtc_minutes = data % 60]
      [] m.ram_bank_num = 10 -> [m EXCEPT !.rtc_hours = data % 24]
      [] m.ram_bank_num = 11 -> [m EXCEPT !.rtc_day = data]
      [] m.ram_bank_num = 12 -> [m EXCEPT !.rtc_flags = BitAnd(data, 193)]
      [] OTHER -> m

ReadExternalRAM(m, addr) ==
    IF m.ext_ram_enabled
    THEN CASE m.mbc_mode = "MBC1" -> ReadExtRamAt(m, AdjustedAddr(m, addr))
           [] m.mbc_mode = "MBC2" ->
                IF AdjustedAddr(m, addr) < ExtRamSize(m)
                THEN BitAnd(VecGet(m.ext_ram, AdjustedAddr(m, addr)), 240)
                ELSE 255
           [] m.mbc_mode = "MBC3" ->
                IF BitAnd(m.ram_bank_num, 8) # 0 THEN ReadRTC(m)
                ELSE ReadExtRamAt(m, AdjustedAddr(m, addr))
           [] m.mbc_mode = "MBC5" ->
                ReadExtRamAt(m, IF m.rumble_present THEN AdjustedAddrRumble(m, addr)
                                ELSE AdjustedAddr(m, addr))
           [] OTHER -> 255
    ELSE 255

WriteExternalRAM(m, addr, data) ==
    IF m.ext_ram_enabled
    THEN CASE m.mbc_mode = "MBC1" -> WriteExtRamAt(m, AdjustedAddr(m, addr), data)
           [] m.mbc_mode = "MBC2" ->
                WriteExtRamAt(m, AdjustedAddr(m, addr), BitAnd(data, 15))
           [] m.mbc_mode = "MBC3" ->
                IF BitAnd(m.ram_bank_num, 8) # 0 THEN WriteRTC(m, data)
                ELSE WriteExtRamAt(m, AdjustedAddr(m, addr), data)
           [] m.mbc_mode = "MBC5" ->
                WriteExtRamAt(m, IF m.rumble_present THEN AdjustedAddrRumble(m, addr)
                                 ELSE AdjustedAddr(m, addr), data)
           [] OTHER -> m
    ELSE m

\* a RAM enable register that ignores whether the cart has RAM
WriteRamEnable_AnyCart(m, data) ==
    [m EXCEPT !.ext_ram_enabled = (BitAnd(data, 15) = 10)]

\* RAM enable register: enabled by a byte with low nibble 0xA, if the cart has RAM
WriteRamEnable(m, data) ==
    [m EXCEPT !.ext_ram_enabled = (m.ext_ram_present /\ BitAnd(data, 15) = 10)]

\* an MBC1 ROM bank register that lets bank numbers 0x00/0x20/0x40/0x60 through
MBC1RomBank_NoBump(m, data) ==
    [m EXCEPT !.rom_bank_num = BitOr(BitAnd(m.rom_bank_num, 96), BitAnd(data, 31))]

\* MBC1 0x2000-0x3FFF: low 5 bits of the ROM bank; 0x00, 0x20, 0x40, 0x60 map
\* to 0x01, 0x21, 0x41, 0x61
MBC1RomBank(m, data) ==
    LET n == BitOr(BitAnd(m.rom_bank_num, 96), BitAnd(data, 31))
    IN  [m EXCEPT !.rom_bank_num = IF n \in {0, 32, 64, 96} THEN n + 1 ELSE n]

\* MBC1 0x4000-0x5FFF: RAM bank number, or bits 5-6 of the ROM bank number
MBC1UpperBits(m, data) ==
    IF m.ram_bank_mode
    THEN [m EXCEPT !.ram_bank_num = BitAnd(data, 3)]
    ELSE [m EXCEPT !.rom_bank_num = BitOr(BitAnd(m.rom_bank_num, 31), BitAnd(data, 3) * 32)]

\* an MBC1 mode register that only records the mode bit
MBC1Mode_KeepsBits(m, data) == [m EXCEPT !.ram_bank_mode = (BitAnd(data, 1) # 0)]

\* MBC1 0x6000-0x7FFF: the mode bit moves the two upper bits between the ROM
\* bank number and the RAM bank number
MBC1Mode(m, data) ==
    IF BitAnd(data, 1) # 0
    THEN [m EXCEPT !.ram_bank_mode = TRUE,
                   !.ram_bank_num = BitAnd(m.rom_bank_num, 96) \div 32,
                   !.rom_bank_num = BitAnd(m.rom_bank_num, 31)]
    ELSE [m EXCEPT !.ram_bank_mode = FALSE,
                   !.rom_bank_num = BitOr(m.rom_bank_num, m.ram_bank_num * 32),
                   !.ram_bank_num = 0]

WriteMBC1(m, addr, data) ==
    IF addr < 8192 THEN WriteRamEnable(m, data)
    ELSE IF addr < 16384 THEN MBC1RomBank(m, data)
    ELSE IF addr < 24576 THEN MBC1UpperBits(m, data)
    ELSE MBC1Mode(m, data)

\* an MBC2 that decodes bit 8 of the address alone over 0x0000-0x3FFF
WriteMBC2_Bit8Only(m, addr, data) ==
    IF addr < 16384
    THEN (IF BitAnd(addr, 256) = 0 THEN WriteRamEnable(m, data)
          ELSE [m EXCEPT !.rom_bank_num =
                    IF BitAnd(data, 15) = 0 THEN 1 ELSE BitAnd(data, 15)])
    ELSE m

\* MBC2: RAM enable below 0x2000 when bit 8 of the address is clear, ROM bank
\* in 0x2000-0x3FFF when bit 8 of the address is set
WriteMBC2(m, addr, data) ==
    IF addr < 8192
    THEN (IF BitAnd(addr, 256) = 0 THEN WriteRamEnable(m, data) ELSE m)
    ELSE IF addr < 16384
    THEN (IF BitAnd(addr, 256) # 0
          THEN [m EXCEPT !.rom_bank_num =
                    IF BitAnd(data, 15) = 0 THEN 1 ELSE BitAnd(data, 15)]
          ELSE m)
    ELSE m

WriteMBC3(m, addr, data) ==
    IF addr < 8192 THEN WriteRamEnable(m, data)
    ELSE IF addr < 16384
    THEN [m EXCEPT !.rom_bank_num =
              IF BitAnd(data, 127) = 0 THEN 1 ELSE BitAnd(data, 127)]
    ELSE IF addr < 24576 THEN [m EXCEPT !.ram_bank_num = BitAnd(data, 15)]
    ELSE m

\* an MBC5 whose high ROM bank register keeps bit 0 of the data only
WriteMBC5_Bit8Only(m, addr, data) ==
    IF addr < 8192 THEN WriteRamEnable(m, data)
    ELSE IF addr < 12288
    THEN [m EXCEPT !.rom_bank_num = (m.rom_bank_num \div 256) * 256 + data]
    ELSE IF addr < 16384
    THEN [m EXCEPT !.rom_bank_num = (m.rom_bank_num % 256) + (data % 2) * 256]
    ELSE IF addr < 24576 THEN [m EXCEPT !.ram_bank_num = BitAnd(data, 15)]
    ELSE m

WriteMBC5(m, addr, data) ==
    IF addr < 8192 THEN WriteRamEnable(m, data)
    ELSE IF addr < 12288
    THEN [m EXCEPT !.rom_bank_num = (m.rom_bank_num \div 256) * 256 + data]
    ELSE IF addr < 16384
    THEN [m EXCEPT !.rom_bank_num = (m.rom_bank_num % 256) + data * 256]
    ELSE IF addr < 24576 THEN [m EXCEPT !.ram_bank_num = BitAnd(data, 15)]
    ELSE m

\* a cart without MBC that lets the write through to the ROM array
WriteMBCControlRegisters_WritesRom(m, addr, data) ==
    CASE m.mbc_mode = "MBC1" -> WriteMBC1(m, addr, data)
      [] m.mbc_mode = "MBC2" -> WriteMBC2(m, addr, data)
      [] m.mbc_mode = "MBC3" -> WriteMBC3(m, addr, data)
      [] m.mbc_mode = "MBC5" -> WriteMBC5(m, addr, data)
      [] OTHER -> [m EXCEPT !.rom = VecSet(@, addr, data)]

\* carts with no MBC ignore writes to 0x0000-0x7FFF
WriteMBCControlRegisters(m, addr, data) ==
    CASE m.mbc_mode = "MBC1" -> WriteMBC1(m, addr, data)
      [] m.mbc_mode = "MBC2" -> WriteMBC2(m, addr, data)
      [] m.mbc_mode = "MBC3" -> WriteMBC3(m, addr, data)
      [] m.mbc_mode = "MBC5" -> WriteMBC5(m, addr, data)
      [] OTHER -> m

----------------------------------------------------------------------------
(* Memory: the address map *)

\* a bank index whose (bank - 1) stops at 0 instead of wrapping
RomBankIndex_NoWrap(m, addr) ==
    IF m.rom_bank_num % m.num_rom_banks = 0 THEN addr
    ELSE addr + 16384 * ((m.rom_bank_num % m.num_rom_banks) - 1)

\* index of the switchable ROM bank byte:
\* addr + 0x4000*((rom_bank_num % num_rom_banks) - 1), computed in unsigned
\* 32-bit arithmetic because num_rom_banks is an unsigned int
RomBankIndex(m, addr) ==
    U32Index(U32Add(U32Mul16384(U32Dec(U32Of(m.rom_bank_num % m.num_rom_banks))), addr))

WramBankOffset(m) == 4096 * (IF m.wram_bank_num = 0 THEN 0 ELSE m.wram_bank_num - 1)

\* a VRAM read that is gated like OAM
ReadVRAM_OamGate(m, addr) ==
    IF BitAnd(m.stat, 2) = 0
    THEN VecGet(m.vram, addr - 32768 + 8192 * m.vram_bank_num)
    ELSE 255

\* VRAM is not accessible during screen mode 3
ReadVRAM(m, addr) ==
    IF BitAnd(m.stat, 3) # 3
    THEN VecGet(m.vram, addr - 32768 + 8192 * m.vram_bank_num)
    ELSE 255

WriteVRAM(m, addr, data) ==
    IF BitAnd(m.stat, 3) # 3
    THEN [m EXCEPT !.vram = VecSet(@, addr - 32768 + 8192 * m.vram_bank_num, data)]
    ELSE m

\* OAM is not accessible during screen modes 2 and 3
ReadOAM(m, addr) ==
    IF BitAnd(m.stat, 2) = 0 THEN VecGet(m.oam, addr - 65024) ELSE 255

\* an OAM write that is gated like VRAM
WriteOAM_VramGate(m, addr, data) ==
    IF BitAnd(m.stat, 3) # 3
    THEN [m EXCEPT !.oam = VecSet(@, addr - 65024, data)]
    ELSE m

WriteOAM(m, addr, data) ==
    IF BitAnd(m.stat, 2) = 0
    THEN [m EXCEPT !.oam = VecSet(@, addr - 65024, data)]
    ELSE m

\* 0xFF00-0xFFFF: I/O registers, high RAM and IE
ReadHighPage(m, addr) ==
    IF addr < 65408 THEN ReadIORegisters(m, addr)
    ELSE VecGet(m.hram, addr - 65408)

WriteHighPage(m, addr, data) ==
    IF addr < 65408 THEN WriteIORegisters(m, addr, data)
    ELSE [m EXCEPT !.hram = VecSet(@, addr - 65408, data)]

\* 0x0000-0xFEFF when the bus is not blocked
ReadExternalBus(m, addr) ==
    IF addr < 16384 THEN RomAt(m, addr)
    ELSE IF addr < 32768 THEN RomAt(m, RomBankIndex(m, addr))
    ELSE IF addr < 40960 THEN ReadVRAM(m, addr)
    ELSE IF addr < 49152 THEN ReadExternalRAM(m, addr)
    ELSE IF addr < 53248 THEN VecGet(m.wram, addr - 49152)
    ELSE IF addr < 57344 THEN VecGet(m.wram, addr - 49152 + WramBankOffset(m))
    ELSE IF addr < 65024 THEN VecGet(m.wram, addr - 57344 + WramBankOffset(m))
    ELSE IF addr < 65184 THEN ReadOAM(m, addr)
    ELSE 0

WriteExternalBus(m, addr, data) ==
    IF addr < 32768 THEN WriteMBCControlRegisters(m, addr, data)
    ELSE IF addr < 40960 THEN WriteVRAM(m, addr, data)
    ELSE IF addr < 49152 THEN WriteExternalRAM(m, addr, data)
    ELSE IF addr < 53248
         THEN [m EXCEPT !.wram = VecSet(@, addr - 49152, data)]
    ELSE IF addr < 57344
         THEN [m EXCEPT !.wram = VecSet(@, addr - 49152 + WramBankOffset(m), data)]
    ELSE IF addr < 65024
         THEN [m EXCEPT !.wram = VecSet(@, addr - 57344 + WramBankOffset(m), data)]
    ELSE IF addr < 65184 THEN WriteOAM(m, addr, data)
    ELSE m

ReadMem8(m, addr) ==
    IF addr >= 65280 THEN ReadHighPage(m, addr)
    ELSE IF ~m.dma_blocking_memory THEN ReadExternalBus(m, addr)
    ELSE 255

ReadMem16(m, addr) == ReadMem8(m, addr) + 256 * ReadMem8(m, U16(addr + 1))

\* a write that tests the DMA flag for ROM and RAM only
WriteMem8_HighRamOpen(m, addr, data) ==
    IF addr >= 65280 THEN WriteHighPage(m, addr, data)
    ELSE IF ~m.dma_blocking_memory \/ addr >= 49152 THEN WriteExternalBus(m, addr, data)
    ELSE m

WriteMem8(m, addr, data) ==
    IF addr >= 65280 THEN WriteHighPage(m, addr, data)
    ELSE IF ~m.dma_blocking_memory THEN WriteExternalBus(m, addr, data)
    ELSE m

WriteMem16(m, addr, data) ==
    WriteMem8(WriteMem8(m, addr, data % 256), U16(addr + 1), data \div 256)

----------------------------------------------------------------------------
(* Memory: helpers declared in the header *)

IncrementDIV(m, cycles) == [m EXCEPT !.divider = U16(m.divider + cycles)]

ReadDIV(m) == m.divider

\* a request made in a machine cycle in which the CPU wrote IF is dropped
RequestInterrupt(m, intr) ==
    IF m.IF_written_this_cycle THEN m
    ELSE [m EXCEPT !.interrupt_flags = BitOr(@, intr)]

IntVBlank == 1
IntStat == 2
IntTimer == 4
IntSerial == 8

----------------------------------------------------------------------------
(* Timer *)

\* DIV bit tested for each TAC frequency: bits 9, 3, 5, 7
select_div_bit == <<512, 8, 32, 128>>

TACFrequency(m) == BitAnd(ReadMem8(m, 65287), 3)

TACEnable(m) == BitAnd(ReadMem8(m, 65287), 4) # 0

\* an edge detector that fires on the rising edge
TIMAIncWentLow_Rising(t, tima_inc) == tima_inc /\ ~t.prev_tima_inc

TIMAIncWentLow(t, tima_inc) == ~tima_inc /\ t.prev_tima_inc

\* a write detector with the comparison inverted
TIMAWasNotWritten_Inverted(t, current_tima_val) == t.prev_tima_val # current_tima_val

TIMAWasNotWritten(t, current_tima_val) == t.prev_tima_val = current_tima_val

LoadTMAIntoTIMA(m) == WriteMem8(m, 65285, ReadMem8(m, 65286))

\* a second-load stage that clears its flag without loading TMA
TimerReloadAgain_NoLoad(s) ==
    IF s.timer.tima_overflow_not_interrupted
    THEN [s EXCEPT !.timer.tima_overflow_not_interrupted = FALSE,
                   !.call.reloaded_again = TRUE]
    ELSE s

\* Timer.cpp:29-35: the second load of TMA, one cycle after the reload
TimerReloadAgain(s) ==
    IF s.timer.tima_overflow_not_interrupted
    THEN [s EXCEPT !.mem = LoadTMAIntoTIMA(s.mem),
                   !.timer.tima_overflow_not_interrupted = FALSE,
                   !.call.reloaded_again = TRUE]
    ELSE s

\* Timer.cpp:37-49: the delayed reload and interrupt, or their abort
TimerOverflow(s) ==
    IF s.timer.tima_overflow
    THEN IF TIMAWasNotWritten(s.timer, ReadMem8(s.mem, 65285))
         THEN [s EXCEPT !.timer.tima_overflow_not_interrupted = TRUE,
                        !.mem = RequestInterrupt(LoadTMAIntoTIMA(s.mem), IntTimer),
                        !.call.reloaded = TRUE,
                        !.call.requested = TRUE,
                        !.timer.tima_overflow = FALSE]
         ELSE [s EXCEPT !.timer.tima_overflow_not_interrupted = FALSE,
                        !.timer.tima_overflow = FALSE]
    ELSE s

\* Timer.cpp:60-73: the falling edge detector
TimerEdge(s) ==
    LET div_tick_bit == BitAnd(select_div_bit[TACFrequency(s.mem) + 1], ReadDIV(s.mem)) # 0
        tima_inc == div_tick_bit /\ TACEnable(s.mem)
        tima_val == ReadMem8(s.mem, 65285)
    IN  IF TIMAIncWentLow(s.timer, tima_inc)
        THEN [s EXCEPT !.timer.tima_overflow = (tima_val = 255),
                       !.mem = WriteMem8(s.mem, 65285, U8(tima_val + 1)),
                       !.timer.prev_tima_val = U8(tima_val + 1),
                       !.timer.prev_tima_inc = tima_inc,
                       !.call.tima_val = tima_val,
                       !.call.incremented = TRUE]
        ELSE [s EXCEPT !.timer.prev_tima_val = tima_val,
                       !.timer.prev_tima_inc = tima_inc,
                       !.call.tima_val = tima_val]

NoTimerCall ==
    [reloaded_again |-> FALSE, reloaded |-> FALSE, requested |-> FALSE,
     incremented |-> FALSE, tima_val |-> 0]

\* s = [mem, timer]; the result carries in "call" what this call did
UpdateTimer(s) ==
    TimerEdge(TimerOverflow(TimerReloadAgain(
        [mem |-> IncrementDIV(s.mem, 4), timer |-> s.timer, call |-> NoTimerCall])))

----------------------------------------------------------------------------
(* OAM DMA *)

DMACopy(m, addr) ==
    IF addr < 16384 THEN RomAt(m, addr)
    ELSE IF addr < 32768 THEN RomAt(m, RomBankIndex(m, addr))
    ELSE IF addr < 40960
         THEN (IF BitAnd(m.stat, 3) # 3
               THEN VecGet(m.vram, addr - 32768 + 8192 * m.vram_bank_num)
               ELSE 255)
    ELSE IF addr < 49152 THEN ReadExternalRAM(m, addr)
    ELSE IF addr < 53248 THEN VecGet(m.wram, addr - 49152)
    ELSE IF addr < 57344 THEN VecGet(m.wram, addr - 49152 + WramBankOffset(m))
    ELSE IF addr < 61952 THEN VecGet(m.wram, addr - 57344 + WramBankOffset(m))
    ELSE 255

\* bytes copied by one transfer
OamDmaLength == 160

\* a RegWritten step that blocks the bus at once
DmaRegWrittenStep_Blocks(m) ==
    [m EXCEPT !.oam_transfer_addr = U16(m.oam_dma_start * 256),
              !.bytes_read = 0,
              !.state_oam_dma = "Starting",
              !.dma_blocking_memory = TRUE]

\* state RegWritten: latch the source address
DmaRegWrittenStep(m) ==
    [m EXCEPT !.oam_transfer_addr = U16(m.oam_dma_start * 256),
              !.bytes_read = 0,
              !.state_oam_dma = "Starting"]

\* a Starting step that leaves the bus open
DmaStartingStep_NoBlock(m) ==
    [m EXCEPT !.oam_transfer_byte = DMACopy(m, m.oam_transfer_addr),
              !.bytes_read = m.bytes_read + 1,
              !.state_oam_dma = "Active"]

\* state Starting: read the first byte, write nothing, block the bus
DmaStartingStep(m) ==
    [m EXCEPT !.oam_transfer_byte = DMACopy(m, m.oam_transfer_addr),
              !.bytes_read = m.bytes_read + 1,
              !.state_oam_dma = "Active",
              !.dma_blocking_memory = TRUE]

\* an Active step that ends the transfer one byte early
DmaActiveStep_EndsEarly(m) ==
    LET w == [m EXCEPT !.oam =
                  VecSet(@, m.bytes_read - 1,
                         IF BitAnd(m.stat, 2) # 1 THEN m.oam_transfer_byte ELSE 255)]
    IN  IF m.bytes_read = OamDmaLength - 1
        THEN [w EXCEPT !.state_oam_dma = "Inactive",
                       !.dma_blocking_memory = FALSE]
        ELSE [w EXCEPT !.oam_transfer_byte =
                           DMACopy(w, U16(m.oam_transfer_addr + m.bytes_read)),
                       !.bytes_read = m.bytes_read + 1]

\* an Active step whose OAM write is gated by LCD modes 2 and 3
DmaActiveStep_Gated(m) ==
    LET w == [m EXCEPT !.oam =
                  VecSet(@, m.bytes_read - 1,
                         IF BitAnd(m.stat, 2) = 0 THEN m.oam_transfer_byte ELSE 255)]
    IN  IF m.bytes_read = OamDmaLength
        THEN [w EXCEPT !.state_oam_dma = "Inactive",
                       !.dma_blocking_memory = FALSE]
        ELSE [w EXCEPT !.oam_transfer_byte =
                           DMACopy(w, U16(m.oam_transfer_addr + m.bytes_read)),
                       !.bytes_read = m.bytes_read + 1]

\* state Active: write the byte read last cycle, then read the next one
DmaActiveStep(m) ==
    LET w == [m EXCEPT !.oam =
                  VecSet(@, m.bytes_read - 1,
                         IF BitAnd(m.stat, 2) # 1 THEN m.oam_transfer_byte ELSE 255)]
    IN  IF m.bytes_read = OamDmaLength
        THEN [w EXCEPT !.state_oam_dma = "Inactive",
                       !.dma_blocking_memory = FALSE]
        ELSE [w EXCEPT !.oam_transfer_byte =
                           DMACopy(w, U16(m.oam_transfer_addr + m.bytes_read)),
                       !.bytes_read = m.bytes_read + 1]

UpdateOAM_DMA(m) ==
    IF m.state_oam_dma = "RegWritten" THEN DmaRegWrittenStep(m)
    ELSE IF m.state_oam_dma = "Starting" THEN DmaStartingStep(m)
    ELSE IF m.state_oam_dma = "Active" THEN DmaActiveStep(m)
    ELSE m

----------------------------------------------------------------------------
(* LCD controller: the mode bits of STAT *)

\* step 0: the mode holds; 1: next mode of the line (2 -> 3 -> 0 -> 2), or
\* first line after V-blank (1 -> 2); 2: last visible line ends (0 -> 1)
LcdNextMode(mode, step) ==
    IF step = 0 THEN mode
    ELSE IF mode = 2 THEN 3
    ELSE IF mode = 3 THEN 0
    ELSE IF mode = 0 THEN (IF step = 2 THEN 1 ELSE 2)
    ELSE 2

SetStatMode(m, mode) == [m EXCEPT !.stat = BitAnd(m.stat, 252) + mode]

UpdateLcd(m, step) ==
    LET mode == BitAnd(m.stat, 3)
        next == LcdNextMode(mode, step)
        n == SetStatMode(m, next)
    IN  IF next = 1 /\ mode # 1 THEN RequestInterrupt(n, IntVBlank) ELSE n

----------------------------------------------------------------------------
(* The machine cycle *)

NoAccess == [op |-> "none", addr |-> 0, data |-> 0, val |-> 0]

\* the source window of the transfer armed by the last write of 0xFF46
DmaSourceChanged(m, n) ==
    /\ dcall.from # "None"
    /\ <<m.stat, m.vram, m.wram, m.ext_ram, m.rom_bank_num, m.ram_bank_num,
         m.vram_bank_num, m.wram_bank_num, m.ext_ram_enabled, m.rom>>
         # <<n.stat, n.vram, n.wram, n.ext_ram, n.rom_bank_num, n.ram_bank_num,
             n.vram_bank_num, n.wram_bank_num, n.ext_ram_enabled, n.rom>>
    /\ \E i \in 0 .. OamDmaLength - 1 :
            DMACopy(m, U16(m.oam_dma_start * 256 + i))
                # DMACopy(n, U16(m.oam_dma_start * 256 + i))

\* from: the DMA state in which 0xFF46 was last written; calls: UpdateOAM_DMA
\* calls that found the DMA not Inactive since then; src_changed: a byte of
\* the source window changed since then
NoDmaCall == [from |-> "None", calls |-> 0, src_changed |-> FALSE]

\* console, game mode and the divider IORegisterInit gives them
Configs == {<<"DMG", "DMG", 43980>>, <<"CGB", "DMG", 9852>>, <<"CGB", "CGB", 7840>>}

\* cartridge headers: MBC kind, RAM present, RAM size, rumble, ROM banks
NoMbcCart == <<"None", FALSE, 0, FALSE, 2>>

\* Cpu.h:45-63: the member initialisers of the Cpu object; of the registers
\* A, F and PC are kept.  lcd_on_when_stopped is the field of GameBoy, hung
\* records the exception of Stop and last the operation executed last
PowerOnCpu ==
    [a |-> 0, f |-> 0, pc |-> 256, cpu_mode |-> "Running",
     speed_switch_cycles |-> 0, interrupt_master_enable |-> TRUE,
     lcd_on_when_stopped |-> 0, hung |-> FALSE, last |-> <<"none", 0>>,
     halted_ticks |-> 0, dma_stalls |-> 0]

\* GameBoy.cpp:61-70: the state of EmulatorLoop before its first iteration.
\* running is the loop condition as last tested, events the events polled so
\* far in this iteration and pause_at_top the pause flag before they were
\* polled. The fields after it record what the last iteration did: whether
\* a frame ran, the target handed to RunFor and the value RunFor returned,
\* the cycles the CPU ran, the calls made, and the paused iterations counted
\* since the last frame (idle) and before the last frame (waited)
PowerOnEmu ==
    [quit |-> FALSE, pause |-> FALSE, old_pause |-> FALSE, frame_advance |-> FALSE,
     overspent_cycles |-> 0, double_speed |-> 0, iterations |-> 0,
     running |-> TRUE, audio_paused |-> FALSE, events |-> <<>>,
     pause_at_top |-> FALSE, ran |-> FALSE,
     target_cycles |-> 0, returned |-> 0, cycles_run |-> 0,
     joypad_updated |-> FALSE, audio_pushed |-> FALSE, rendered |-> FALSE,
     idle |-> 0, waited |-> 0]

\* no ROM path has been handed to SaveGamePath
NoOptions == [rom_path |-> <<>>, result |-> "none", save_path |-> <<>>]

\* A 32-bit word is a pair <<high half, low half>> of 16-bit numbers.
\* The ARM core after reset: Supervisor mode with IRQ and FIQ disabled, all
\* registers and saved status registers zero, no memory word written and
\* no operation executed.
ResetArm ==
    [regs |-> [r \in 0 .. 15 |-> <<0, 0>>],
     cpsr |-> <<0, 211>>,
     spsr |-> [md \in {"Fiq", "Svc", "Abort", "Irq", "Undef"} |-> <<0, 0>>],
     bank |-> [md \in {"User", "Fiq", "Svc", "Abort", "Irq", "Undef"} |->
                  [r \in 8 .. 14 |-> <<0, 0>>]],
     mem |-> EmptyVec,
     pc_written |-> FALSE,
     access_cycles |-> 0, internal_cycles |-> 0, pc_write_cycles |-> 0,
     accesses |-> <<>>,
     returned |-> 0,
     last |-> [op |-> "none"]]

\* The audio unit at power-on: the per-frame sample counter, the power state
\* UpdatePowerOnState follows, the double-speed skip bit, and the sample
\* buffer seen through the pair appended last. counted, pairs and
\* buffer_bytes observe a span of non-skipped ticks (the ticks, the pairs
\* and the bytes appended in it): counted is -1 until the span starts.
PowerOnAudio ==
    [sample_drop |-> 0, audio_on |-> FALSE, double_speed_skip |-> 0,
     buffer_bytes |-> 0, pushed |-> <<>>, counted |-> -1, pairs |-> 0]

InitMachine(cfgs, carts) ==
    /\ \E cfg \in cfgs, cart \in carts :
         mem = [console |-> cfg[1], game_mode |-> cfg[2],
                mbc_mode |-> cart[1], ext_ram_present |-> cart[2],
                ram_size |-> cart[3], rumble_present |-> cart[4],
                num_rom_banks |-> cart[5], rom |-> EmptyVec,
                ram_bank_mode |-> FALSE,
                rtc_seconds |-> 0, rtc_minutes |-> 0, rtc_hours |-> 0,
                rtc_day |-> 0, rtc_flags |-> 0,
                joypad |-> IF cfg[1] = "DMG" THEN 207 ELSE 255,
                divider |-> cfg[3],
                timer_counter |-> 0, timer_modulo |-> 0, timer_control |-> 0,
                interrupt_flags |-> 0, IF_written_this_cycle |-> FALSE,
                stat |-> 1,
                oam_dma_start |-> 0, state_oam_dma |-> "Inactive",
                oam_transfer_addr |-> 0, oam_transfer_byte |-> 0, bytes_read |-> 0,
                dma_blocking_memory |-> FALSE,
                rom_bank_num |-> 1, ram_bank_num |-> 0, ext_ram_enabled |-> FALSE,
                vram_bank_num |-> 0, wram_bank_num |-> 1,
                vram |-> EmptyVec, wram |-> EmptyVec, oam |-> EmptyVec,
                hram |-> EmptyVec, ext_ram |-> EmptyVec, io |-> EmptyVec,
                audio |-> PowerOnAudio]
    /\ timer = [tima_overflow |-> FALSE, tima_overflow_not_interrupted |-> FALSE,
                prev_tima_val |-> 0, prev_tima_inc |-> FALSE]
    /\ bus = NoAccess
    /\ tcall = NoTimerCall
    /\ dcall = NoDmaCall
    /\ phase = "cpu"
    /\ ticks = 0

InitCart(cfgs, carts) ==
    /\ InitMachine(cfgs, carts)
    /\ cpu = PowerOnCpu
    /\ emu = PowerOnEmu
    /\ opts = NoOptions
    /\ arm = ResetArm

InitWith(cfgs) == InitCart(cfgs, {NoMbcCart})

Init == InitWith(Configs)

\* WriteMemAndTick, first half: the bus write
CpuWrite(addr, data) ==
    /\ phase = "cpu"
    /\ mem' = WriteMem8(mem, addr, data)
    /\ bus' = [op |-> "write", addr |-> addr, data |-> data, val |-> 0]
    /\ dcall' = IF addr = 65350
                THEN [from |-> mem.state_oam_dma, calls |-> 0, src_changed |-> FALSE]
                ELSE [dcall EXCEPT !.src_changed = @ \/ DmaSourceChanged(mem, mem')]
    /\ phase' = "tick"
    /\ UNCHANGED <<timer, tcall, ticks, cpu, emu, opts, arm>>

\* a 16-bit write: two byte writes, low byte first
CpuWrite16(addr, data) ==
    /\ phase = "cpu"
    /\ mem' = WriteMem16(mem, addr, data)
    /\ bus' = [op |-> "write16", addr |-> addr, data |-> data, val |-> 0]
    /\ dcall' = [dcall EXCEPT !.src_changed = @ \/ DmaSourceChanged(mem, mem')]
    /\ phase' = "tick"
    /\ UNCHANGED <<timer, tcall, ticks, cpu, emu, opts, arm>>

\* ReadMemAndTick, first half: the bus read
CpuRead(addr) ==
    /\ phase = "cpu"
    /\ bus' = [op |-> "read", addr |-> addr, data |-> 0, val |-> ReadMem8(mem, addr)]
    /\ phase' = "tick"
    /\ UNCHANGED <<mem, timer, tcall, dcall, ticks, cpu, emu, opts, arm>>

\* an internal delay cycle: no bus access
CpuInternal ==
    /\ phase = "cpu"
    /\ bus' = NoAccess
    /\ phase' = "tick"
    /\ UNCHANGED <<mem, timer, tcall, dcall, ticks, cpu, emu, opts, arm>>

\* a tick that advances the OAM DMA after the LCD
TickPeripherals_DmaLast(m, t, lcd_step) ==
    LET a == UpdateTimer([mem |-> m, timer |-> t])
        b == UpdateOAM_DMA(UpdateLcd(a.mem, lcd_step))
    IN  [a EXCEPT !.mem = [b EXCEPT !.IF_written_this_cycle = FALSE]]

\* the body of the loop of HardwareTick: OAM DMA, timer, LCD, then the
\* IF-written flag is cleared; the result is [mem, timer, call]
TickPeripherals(m, t, lcd_step) ==
    LET a == UpdateTimer([mem |-> UpdateOAM_DMA(m), timer |-> t])
        b == UpdateLcd(a.mem, lcd_step)
    IN  [a EXCEPT !.mem = [b EXCEPT !.IF_written_this_cycle = FALSE]]

HardwareTick(lcd_step) ==
    /\ phase = "tick"
    /\ \E r \in {TickPeripherals(mem, timer, lcd_step)} :
           /\ mem' = r.mem
           /\ timer' = r.timer
           /\ tcall' = r.call
           /\ dcall' = [dcall EXCEPT
                          !.calls = IF mem.state_oam_dma # "Inactive" THEN @ + 1 ELSE @,
                          !.src_changed = @ \/ DmaSourceChanged(mem, r.mem)]
    /\ phase' = "cpu"
    /\ ticks' = ticks + 1
    /\ UNCHANGED <<bus, cpu, emu, opts, arm>>

----------------------------------------------------------------------------
(* Specification of the timer: the CPU programs DIV, TIMA, TMA, TAC and IF *)

TimerWrites ==
    {<<65284, 0>>,
     <<65285, 0>>, <<65285, 90>>, <<65285, 255>>,
     <<65286, 16>>, <<65286, 255>>,
     <<65287, 0>>, <<65287, 4>>, <<65287, 5>>,
     <<65295, 0>>, <<65295, 251>>}

TimerCpuWrite == \E w \in TimerWrites : CpuWrite(w[1], w[2])

TimerTick == HardwareTick(0)

NextTimer ==
    /\ ticks < MaxTimerTicks
    /\ (TimerCpuWrite \/ CpuInternal \/ TimerTick)

SpecTimer == Init /\ [][NextTimer]_vars

----------------------------------------------------------------------------
(* Timer claims *)

WroteTo(addr) == bus.op = "write" /\ bus.addr = addr

\* the timer signal: the DIV bit selected by TAC bits 0-1 (bit 9, 3, 5 or 7)
\* ANDed with the TAC enable bit
TimerSignal(m) ==
    LET sel == m.timer_control % 4
        bit == IF sel = 0 THEN 9 ELSE IF sel = 1 THEN 3 ELSE IF sel = 2 THEN 5 ELSE 7
    IN  /\ (m.divider \div (2 ^ bit)) % 2 = 1
        /\ (m.timer_control \div 4) % 2 = 1

\* C1: if the CPU writes TIMA in the cycle in which TIMA holds 0x00 after an
\* overflow, then for every written value, 0x00 included, the next UpdateTimer
\* loads no TMA into TIMA and requests no timer interrupt, and TIMA holds the
\* written value.
C1_AbortOnAnyWrite ==
    [][(phase = "tick" /\ timer.tima_overflow /\ WroteTo(65285))
          => /\ ~tcall'.reloaded
             /\ ~tcall'.reloaded_again
             /\ ~tcall'.requested
             /\ mem'.timer_counter = bus.data]_vars

\* C2: the call whose falling edge increments TIMA from 0xFF leaves TIMA = 0x00
\* and requests no interrupt; the next call loads TMA into TIMA and requests
\* the timer interrupt, provided the CPU did not write TIMA in between.
C2_DelayedReload ==
    [][phase = "tick"
          => /\ (tcall'.incremented /\ tcall'.tima_val = 255)
                   => /\ mem'.timer_counter = 0
                      /\ ~tcall'.requested
                      /\ ~tcall'.reloaded
             /\ timer'.tima_overflow = (tcall'.incremented /\ tcall'.tima_val = 255)
             /\ (timer.tima_overflow /\ ~WroteTo(65285))
                   => /\ tcall'.reloaded
                      /\ tcall'.requested
                      /\ mem'.timer_counter = mem.timer_modulo
                      /\ (WroteTo(65295) \/ (mem'.interrupt_flags \div 4) % 2 = 1)]_vars

C2_Witness ==
    /\ phase = "cpu"
    /\ tcall.reloaded
    /\ tcall.requested
    /\ mem.timer_counter = 16
    /\ (mem.interrupt_flags \div 4) % 2 = 1

C4_IFWriteWins ==
    [][(phase = "tick" /\ WroteTo(65295) /\ tcall'.requested)
          => /\ mem.IF_written_this_cycle
             /\ mem'.interrupt_flags = bus.data % 32
             /\ ~mem'.IF_written_this_cycle]_vars

C4_Witness ==
    /\ phase = "cpu"
    /\ WroteTo(65295)
    /\ bus.data = 0
    /\ tcall.requested
    /\ mem.interrupt_flags = 0

\* C5: the edge detector increments TIMA in a tick iff the timer signal was 1
\* at the previous tick and is 0 at this tick; otherwise it leaves TIMA alone.
C5_FallingEdge ==
    [][phase = "tick"
          => /\ tcall'.incremented = (timer.prev_tima_inc /\ ~TimerSignal(mem'))
             /\ timer'.prev_tima_inc = TimerSignal(mem')
             /\ mem'.timer_counter =
                    IF tcall'.incremented THEN U8(tcall'.tima_val + 1)
                    ELSE tcall'.tima_val]_vars

C5_Witness ==
    /\ phase = "cpu"
    /\ tcall.incremented
    /\ mem.timer_counter = 91
    /\ (mem.timer_control \div 4) % 2 = 0

\* C6: a CPU write of any value to DIV zeroes the 16-bit divider; the next
\* UpdateTimer increments TIMA exactly once if the timer is enabled and the
\* selected divider bit was 1 at the previous tick, and not at all otherwise.
C6_DivWrite ==
    [][/\ (phase = "cpu" /\ bus'.op = "write" /\ bus'.addr = 65284)
          => /\ mem'.divider = 0
             /\ timer.prev_tima_inc = TimerSignal(mem)
       /\ (phase = "tick" /\ WroteTo(65284))
          => /\ tcall'.incremented = timer.prev_tima_inc
             /\ mem'.timer_counter =
                    IF timer.prev_tima_inc THEN U8(tcall'.tima_val + 1)
                    ELSE tcall'.tima_val
             /\ mem'.divider = 4]_vars

C6_Witness ==
    /\ phase = "cpu"
    /\ WroteTo(65284)
    /\ tcall.incremented
    /\ mem.divider = 4

----------------------------------------------------------------------------
(* Specification of the OAM DMA: the CPU arms and restarts transfers and     *)
(* accesses the bus around them                                             *)

\* source pages: switchable ROM bank, VRAM
DmaPages == {64, 128}

\* one address per region of the map below 0xFF00, and HRAM
SampleAddrs == {336, 16384, 32769, 40960, 49152, 57344, 65024, 65184, 65408}

DmaRamWrites == {<<32769, 165>>}

\* the CPU accesses the bus while it sets the transfer up and when the
\* transfer ends; in between it runs internal cycles
InCpuWindow ==
    \/ ticks < ArmWindow
    \/ dcall.calls >= OamDmaLength + 2 - EndWindow

DmaCpuArm ==
    /\ ticks < ArmWindow
    /\ \E page \in DmaPages : CpuWrite(65350, page)

DmaCpuWrite ==
    /\ InCpuWindow
    /\ \E w \in DmaRamWrites : CpuWrite(w[1], w[2])

DmaCpuRead ==
    /\ InCpuWindow
    /\ \E a \in SampleAddrs : CpuRead(a)

DmaTick ==
    \E step \in (IF ticks < LcdWindow THEN {0, 1} ELSE {0}) : HardwareTick(step)

NextDma ==
    /\ ticks < ArmWindow + MaxDmaTicks
    /\ (DmaCpuArm \/ DmaCpuWrite \/ DmaCpuRead \/ CpuInternal \/ DmaTick)

\* a DMG console
InitDma == InitWith({<<"DMG", "DMG", 43980>>})

SpecDma == InitDma /\ [][NextDma]_vars

----------------------------------------------------------------------------
(* OAM DMA claims *)

DmaSource(i) == DMACopy(mem, U16(mem.oam_dma_start * 256 + i))

\* C7: after 0xFF46 is written with page P and not written again, the
\* UpdateOAM_DMA calls go RegWritten -> Starting -> Active and reach Inactive
\* on exactly the 162nd call; the Starting call reads source byte 0 and writes
\* nothing, each of the next 160 calls writes the byte read by the call before
\* it, and at the end OAM[i] is the source byte at (P << 8) + i for i in
\* 0..159, the source being unchanged meanwhile.
C7_TransferSchedule ==
    /\ [](dcall.from # "None"
            => /\ dcall.calls = 0 <=> mem.state_oam_dma = "RegWritten"
               /\ dcall.calls = 1 <=> mem.state_oam_dma = "Starting"
               /\ dcall.calls \in 2 .. OamDmaLength + 1
                     <=> mem.state_oam_dma = "Active"
               /\ dcall.calls = OamDmaLength + 2 <=> mem.state_oam_dma = "Inactive"
               /\ mem.state_oam_dma = "Active"
                     => /\ mem.bytes_read = dcall.calls - 1
                        /\ mem.oam_transfer_addr = mem.oam_dma_start * 256
                        /\ ~dcall.src_changed
                              => mem.oam_transfer_byte = DmaSource(dcall.calls - 2)
               /\ (dcall.calls >= 3 /\ ~dcall.src_changed)
                     => \A i \in 0 .. dcall.calls - 3 : VecGet(mem.oam, i) = DmaSource(i))
    /\ [][/\ (phase = "tick" /\ mem.state_oam_dma \in {"RegWritten", "Starting"})
                => mem'.oam = mem.oam
          /\ (phase = "tick" /\ mem.state_oam_dma = "Starting")
                => mem'.oam_transfer_byte = DmaSource(0)
          /\ (phase = "tick" /\ mem.state_oam_dma = "Active")
                => VecGet(mem'.oam, mem.bytes_read - 1) = mem.oam_transfer_byte]_vars

C7_Witness ==
    /\ dcall.from = "Inactive"
    /\ dcall.calls = OamDmaLength + 2
    /\ mem.state_oam_dma = "Inactive"
    /\ ~dcall.src_changed
    /\ mem.oam_dma_start = 64
    /\ VecGet(mem.oam, 159) = RomByte(16384 + 159)

\* C8: DMA state Active implies dma_blocking_memory and Inactive implies its
\* negation; the flag turns true only on the Starting -> Active step and false
\* only on the Active -> Inactive step.
C8_BlockingFlag ==
    /\ []((mem.state_oam_dma = "Active" => mem.dma_blocking_memory)
          /\ (mem.state_oam_dma = "Inactive" => ~mem.dma_blocking_memory))
    /\ [][/\ (~mem.dma_blocking_memory /\ mem'.dma_blocking_memory)
                => (mem.state_oam_dma = "Starting" /\ mem'.state_oam_dma = "Active")
          /\ (mem.dma_blocking_memory /\ ~mem'.dma_blocking_memory)
                => (mem.state_oam_dma = "Active" /\ mem'.state_oam_dma = "Inactive")]_vars

C8_Witness ==
    /\ mem.state_oam_dma = "Inactive"
    /\ ~mem.dma_blocking_memory
    /\ dcall.from = "Active"
    /\ dcall.calls = OamDmaLength + 2

\* C9: a write of 0xFF46 while a DMA is Active goes Active -> RegWritten ->
\* Starting -> Active without passing through Inactive, and
\* dma_blocking_memory stays true during the RegWritten and Starting cycles
\* of the restarted transfer; for a DMA armed from Inactive the bus is not
\* blocked during its RegWritten and Starting cycles.
C9_Restart ==
    /\ []((mem.state_oam_dma \in {"RegWritten", "Starting"} /\ dcall.from = "Active")
             => mem.dma_blocking_memory)
    /\ []((mem.state_oam_dma \in {"RegWritten", "Starting"} /\ dcall.from = "Inactive")
             => ~mem.dma_blocking_memory)
    /\ [][/\ (phase = "cpu" /\ bus'.op = "write" /\ bus'.addr = 65350)
                => mem'.state_oam_dma = "RegWritten"
          /\ (phase = "tick" /\ mem.state_oam_dma = "RegWritten")
                => mem'.state_oam_dma = "Starting"
          /\ (phase = "tick" /\ mem.state_oam_dma = "Starting")
                => mem'.state_oam_dma = "Active"
          /\ mem.state_oam_dma \in {"RegWritten", "Starting"}
                => mem'.state_oam_dma # "Inactive"]_vars

C9_Witness ==
    /\ mem.state_oam_dma = "Starting"
    /\ dcall.from = "Active"
    /\ mem.dma_blocking_memory
    /\ phase = "tick"
    /\ bus.op = "read"
    /\ bus.addr = 336
    /\ bus.val = 255

\* C10 as stated: after the CPU arms an OAM DMA from Inactive, a CPU read of
\* any address below 0xFF00 on the very next machine cycle returns 0xFF.
C10_BlockedNextCycle ==
    (/\ phase = "tick"
     /\ bus.op = "read"
     /\ bus.addr < 65280
     /\ dcall.from = "Inactive"
     /\ dcall.calls = 1)
        => bus.val = 255

\* C10 amended: the read on the very next machine cycle is served as if no DMA
\* were running; from the machine cycle after that one (two hardware ticks
\* after the write) every read below 0xFF00 returns 0xFF.
C10_BlockedSecondCycle ==
    (/\ phase = "tick"
     /\ bus.op = "read"
     /\ bus.addr < 65280
     /\ dcall.from = "Inactive")
        => /\ dcall.calls = 1
                 => bus.val = ReadMem8([mem EXCEPT !.dma_blocking_memory = FALSE], bus.addr)
           /\ dcall.calls = 2 => bus.val = 255

C10_Witness ==
    /\ phase = "tick"
    /\ bus.op = "read"
    /\ bus.addr = 336
    /\ bus.val = 255
    /\ dcall.from = "Inactive"
    /\ dcall.calls = 2

\* the DMA fetches a source byte in this tick
DmaFetches(m) ==
    \/ m.state_oam_dma = "Starting"
    \/ (m.state_oam_dma = "Active" /\ m.bytes_read # OamDmaLength)

\* C12 as stated: in each tick the peripherals advance in the order timer,
\* serial, LCD, audio, OAM DMA, so the byte the DMA fetches is read after the
\* LCD has set the STAT mode of this tick; the IF-written flag is cleared last.
C12_DmaAfterLcd ==
    [][phase = "tick"
          => /\ DmaFetches(mem)
                   => mem'.oam_transfer_byte =
                          DMACopy(mem', U16(mem.oam_transfer_addr + mem.bytes_read))
             /\ ~mem'.IF_written_this_cycle]_vars

\* C12 amended: in each tick the OAM DMA advances first, then timer, serial,
\* LCD and audio, so the byte the DMA fetches is read under the STAT mode the
\* LCD had before this tick; the IF-written flag is cleared last.
C12_DmaBeforeLcd ==
    [][phase = "tick"
          => /\ DmaFetches(mem)
                   => mem'.oam_transfer_byte =
                          DMACopy(mem, U16(mem.oam_transfer_addr + mem.bytes_read))
             /\ mem'.divider = U16(mem.divider + 4)
             /\ ~mem'.IF_written_this_cycle]_vars

\* the DMA fetched byte 1 of VRAM in the tick in which the LCD entered mode 3
C12_Witness ==
    /\ phase = "cpu"
    /\ mem.state_oam_dma = "Active"
    /\ mem.bytes_read = 2
    /\ mem.oam_dma_start = 128
    /\ mem.oam_transfer_byte = 165
    /\ mem.stat % 4 = 3
    /\ DMACopy(mem, 32769) = 255

----------------------------------------------------------------------------
(* Specification of the blocked bus: the CPU arms an OAM DMA and accesses   *)
(* every region of the address map before and while the bus is blocked     *)

\* machine cycles explored in the blocked-bus specification
MaxBlockTicks == 5

\* an MBC1 cart with 32 KB of RAM and 4 ROM banks
Mbc1Cart == <<"MBC1", TRUE, 32768, FALSE, 4>>

\* MBC registers, VRAM, cart RAM, WRAM, echo, OAM, unusable, TMA, HRAM, IE
BlockWrites ==
    {<<0, 10>>, <<8192, 2>>, <<32769, 165>>, <<40960, 85>>, <<49152, 17>>,
     <<57345, 51>>, <<65024, 90>>, <<65184, 1>>, <<65286, 16>>, <<65408, 102>>,
     <<65535, 31>>}

BlockReads ==
    {336, 16384, 32769, 40960, 49152, 57345, 65024, 65184, 65286, 65408, 65535}

BlockCpuArm == CpuWrite(65350, 192)

BlockCpuWrite ==
    /\ dcall.from # "None"
    /\ \E w \in BlockWrites : CpuWrite(w[1], w[2])

BlockCpuRead == \E a \in BlockReads : CpuRead(a)

BlockTick == HardwareTick(0)

NextBlock ==
    /\ ticks < MaxBlockTicks
    /\ (BlockCpuArm \/ BlockCpuWrite \/ BlockCpuRead \/ CpuInternal \/ BlockTick)

InitBlock == InitCart({<<"DMG", "DMG", 43980>>}, {Mbc1Cart})

SpecBlock == InitBlock /\ [][NextBlock]_vars

\* C11: while the OAM DMA blocks the bus, every CPU read below 0xFF00 returns
\* 0xFF and every CPU write below 0xFF00 changes nothing; reads and writes of
\* 0xFF00-0xFFFF act on the I/O registers, HRAM and IE as without DMA.
C11_BlockedBus ==
    [][(phase = "cpu" /\ mem.dma_blocking_memory)
          => /\ (bus'.op = "read" /\ bus'.addr < 65280) => bus'.val = 255
             /\ (bus'.op = "write" /\ bus'.addr < 65280) => mem' = mem
             /\ (bus'.op = "read" /\ bus'.addr >= 65408)
                   => bus'.val = VecGet(mem.hram, bus'.addr - 65408)
             /\ (bus'.op = "write" /\ bus'.addr >= 65408)
                   => /\ VecGet(mem'.hram, bus'.addr - 65408) = bus'.data
                      /\ [mem' EXCEPT !.hram = mem.hram] = mem
             /\ (bus'.op = "read" /\ bus'.addr = 65286)
                   => bus'.val = mem.timer_modulo
             /\ (bus'.op = "write" /\ bus'.addr = 65286)
                   => /\ mem'.timer_modulo = bus'.data
                      /\ [mem' EXCEPT !.timer_modulo = mem.timer_modulo] = mem
             /\ (bus'.op = "write" /\ bus'.addr = 65350)
                   => /\ mem'.oam_dma_start = bus'.data
                      /\ mem'.state_oam_dma = "RegWritten"
                      /\ mem'.dma_blocking_memory]_vars

C11_Witness ==
    /\ phase = "tick"
    /\ mem.dma_blocking_memory
    /\ bus.op = "read"
    /\ bus.addr = 49152
    /\ bus.val = 255
    /\ VecGet(mem.wram, 0) = 17
    /\ VecGet(mem.hram, 0) = 102

----------------------------------------------------------------------------
(* Specification of the LCD gating: the CPU accesses VRAM and OAM while the *)
(* LCD walks through its modes                                              *)

\* machine cycles explored in the LCD gating specification
MaxLcdTicks == 5

\* VBK, two VRAM addresses, two OAM addresses
LcdWrites ==
    {<<65359, 1>>, <<65359, 0>>, <<32769, 165>>, <<40959, 60>>,
     <<65024, 90>>, <<65183, 7>>}

LcdReads == {32769, 40959, 65024, 65183}

LcdCpuWrite == \E w \in LcdWrites : CpuWrite(w[1], w[2])

LcdCpuRead == \E a \in LcdReads : CpuRead(a)

LcdTick == \E step \in {0, 1, 2} : HardwareTick(step)

NextLcd ==
    /\ ticks < MaxLcdTicks
    /\ (LcdCpuWrite \/ LcdCpuRead \/ LcdTick)

\* a DMG and a CGB console running a game of its own kind
InitLcd == InitWith({<<"DMG", "DMG", 43980>>, <<"CGB", "CGB", 7840>>})

SpecLcd == InitLcd /\ [][NextLcd]_vars

StatMode(m) == m.stat % 4

InVram(addr) == addr >= 32768 /\ addr < 40960

InOam(addr) == addr >= 65024 /\ addr < 65184

\* C13: with the bus not blocked, a CPU read of VRAM returns 0xFF and a CPU
\* write of VRAM changes nothing exactly when the STAT mode is 3; in modes 0,
\* 1 and 2 the read returns the byte of the selected VRAM bank and the write
\* stores it there.
C13_VramGate ==
    [][(phase = "cpu" /\ ~mem.dma_blocking_memory /\ InVram(bus'.addr))
          => /\ bus'.op = "read"
                   => bus'.val = IF StatMode(mem) = 3 THEN 255
                                 ELSE VecGet(mem.vram, bus'.addr - 32768
                                                        + 8192 * mem.vram_bank_num)
             /\ (bus'.op = "write" /\ StatMode(mem) = 3) => mem' = mem
             /\ (bus'.op = "write" /\ StatMode(mem) # 3)
                   => /\ VecGet(mem'.vram, bus'.addr - 32768 + 8192 * mem.vram_bank_num)
                            = bus'.data
                      /\ \A i \in DOMAIN mem.vram :
                            i # bus'.addr - 32768 + 8192 * mem.vram_bank_num
                               => VecGet(mem'.vram, i) = mem.vram[i]
                      /\ [mem' EXCEPT !.vram = mem.vram] = mem]_vars

\* a read in mode 3 returned 0xFF although bank 1 holds another byte there
C13_Witness ==
    /\ phase = "tick"
    /\ bus.op = "read"
    /\ bus.addr = 32769
    /\ bus.val = 255
    /\ StatMode(mem) = 3
    /\ mem.vram_bank_num = 1
    /\ VecGet(mem.vram, 8193) = 165

\* C14: with the bus not blocked, a CPU read of OAM returns 0xFF and a CPU
\* write of OAM changes nothing exactly when the STAT mode is 2 or 3; in
\* modes 0 and 1 the read returns the stored byte and the write stores it.
C14_OamGate ==
    [][(phase = "cpu" /\ ~mem.dma_blocking_memory /\ InOam(bus'.addr))
          => /\ bus'.op = "read"
                   => bus'.val = IF StatMode(mem) \in {2, 3} THEN 255
                                 ELSE VecGet(mem.oam, bus'.addr - 65024)
             /\ (bus'.op = "write" /\ StatMode(mem) \in {2, 3}) => mem' = mem
             /\ (bus'.op = "write" /\ StatMode(mem) \in {0, 1})
                   => /\ VecGet(mem'.oam, bus'.addr - 65024) = bus'.data
                      /\ \A i \in DOMAIN mem.oam :
                            i # bus'.addr - 65024 => VecGet(mem'.oam, i) = mem.oam[i]
                      /\ [mem' EXCEPT !.oam = mem.oam] = mem]_vars

\* a write in mode 2 was dropped: OAM still holds the byte written before
C14_Witness ==
    /\ phase = "tick"
    /\ bus.op = "write"
    /\ bus.addr = 65183
    /\ bus.data = 7
    /\ StatMode(mem) = 2
    /\ VecGet(mem.oam, 159) = 0
    /\ VecGet(mem.oam, 0) = 90

----------------------------------------------------------------------------
(* Specification of work RAM and its echo: the CPU selects WRAM banks and   *)
(* accesses 0xC000-0xDDFF and 0xE000-0xFDFF                                 *)

\* machine cycles explored in the echo specification
MaxEchoTicks == 3

\* SVBK, then a byte of each WRAM half and of each echo half
EchoWrites ==
    {<<65392, 0>>, <<65392, 2>>, <<65392, 7>>,
     <<49157, 17>>, <<53253, 34>>, <<57349, 51>>, <<61445, 68>>,
     <<56831, 85>>, <<65023, 102>>}

EchoReads == {49157, 53253, 57349, 61445, 56831, 65023}

EchoCpuWrite == \E w \in EchoWrites : CpuWrite(w[1], w[2])

EchoCpuRead == \E a \in EchoReads : CpuRead(a)

EchoTick == HardwareTick(0)

NextEcho ==
    /\ ticks < MaxEchoTicks
    /\ (EchoCpuWrite \/ EchoCpuRead \/ EchoTick)

SpecEcho == Init /\ [][NextEcho]_vars

InEcho(addr) == addr >= 57344 /\ addr < 65024

InEchoed(addr) == addr >= 49152 /\ addr < 56832

\* C15: for every address a of the echo region and every selectable WRAM
\* bank, a read of a returns what a read of a - 0x2000 returns, a write to a
\* is seen by a read of a - 0x2000, and a write to a - 0x2000 by a read of a.
C15_EchoMirrors ==
    [][(phase = "cpu" /\ ~mem.dma_blocking_memory)
          => /\ (bus'.op = "read" /\ InEcho(bus'.addr))
                   => bus'.val = ReadMem8(mem, bus'.addr - 8192)
             /\ (bus'.op = "write" /\ InEcho(bus'.addr))
                   => ReadMem8(mem', bus'.addr - 8192) = bus'.data
             /\ (bus'.op = "write" /\ InEchoed(bus'.addr))
                   => ReadMem8(mem', bus'.addr + 8192) = bus'.data]_vars

----------------------------------------------------------------------------
(* Specification of the cartridge: the CPU programs the MBC registers and   *)
(* accesses the cartridge RAM of each kind of cart                          *)

\* machine cycles explored in the cartridge specification
MaxMbcTicks == 4

Mbc1SmallCart == <<"MBC1", TRUE, 8192, FALSE, 128>>
Mbc1NoRamCart == <<"MBC1", FALSE, 0, FALSE, 128>>
Mbc2Cart == <<"MBC2", TRUE, 512, FALSE, 16>>
Mbc3Cart == <<"MBC3", TRUE, 32768, FALSE, 8>>
Mbc5Cart == <<"MBC5", TRUE, 32768, FALSE, 8>>
Mbc5RumbleCart == <<"MBC5", TRUE, 32768, TRUE, 8>>

MbcCarts ==
    {NoMbcCart, Mbc1SmallCart, Mbc1NoRamCart, Mbc2Cart, Mbc3Cart, Mbc5Cart,
     Mbc5RumbleCart}

\* one address per register window, with bit 8 of the address clear and set
MbcControlAddrs == {0, 256, 8192, 8448, 12288, 16384, 24576}

MbcControlData == {0, 1, 3, 8, 26}

\* first and last byte of the cartridge RAM window
MbcRamAddrs == {40960, 49151}

MbcRamWrites == {<<40960, 85>>, <<49151, 119>>}

\* the low byte enables the RAM, the high byte selects ROM bank 3
MbcWrites16 == {<<8191, 778>>, <<32767, 513>>}

MbcCpuWrite ==
    \/ \E a \in MbcControlAddrs, d \in MbcControlData : CpuWrite(a, d)
    \/ \E w \in MbcRamWrites : CpuWrite(w[1], w[2])

MbcCpuWrite16 == \E w \in MbcWrites16 : CpuWrite16(w[1], w[2])

MbcCpuRead == \E a \in MbcRamAddrs \cup {336, 16384} : CpuRead(a)

MbcTick == HardwareTick(0)

NextMbc ==
    /\ ticks < MaxMbcTicks
    /\ (MbcCpuWrite \/ MbcCpuWrite16 \/ MbcCpuRead \/ MbcTick)

InitMbc == InitCart({<<"DMG", "DMG", 43980>>}, MbcCarts)

SpecMbc == InitMbc /\ [][NextMbc]_vars

\* the byte writes a bus operation is made of
BusByteWrites(b) ==
    IF b.op = "write" THEN {<<b.addr, b.data>>}
    ELSE IF b.op = "write16"
    THEN {<<b.addr, b.data % 256>>, <<U16(b.addr + 1), b.data \div 256>>}
    ELSE {}

\* m with the MBC selector state of n
WithSelectors(m, n) ==
    [m EXCEPT !.rom_bank_num = n.rom_bank_num,
              !.ram_bank_num = n.ram_bank_num,
              !.ext_ram_enabled = n.ext_ram_enabled,
              !.ram_bank_mode = n.ram_bank_mode]

\* C16: for every MBC kind and every sequence of 8- and 16-bit CPU writes the
\* ROM image is unchanged: a write to 0x0000-0x7FFF modifies only the MBC
\* selector state (rom_bank_num, ram_bank_num, ext_ram_enabled,
\* ram_bank_mode) and, for a cart with no MBC, modifies nothing.
C16_RomUnchanged ==
    /\ [](DOMAIN mem.rom = {})
    /\ []((bus.op = "read" /\ bus.addr < 16384) => bus.val = RomByte(bus.addr))
    /\ [][(phase = "cpu" /\ BusByteWrites(bus') # {}
                         /\ \A w \in BusByteWrites(bus') : w[1] < 32768)
             => /\ WithSelectors(mem', mem) = mem
                /\ mem.mbc_mode = "None" => mem' = mem]_vars

\* a 16-bit write across two register windows reprogrammed an MBC3
C16_Witness ==
    /\ phase = "tick"
    /\ bus.op = "write16"
    /\ bus.addr = 8191
    /\ mem.mbc_mode = "MBC3"
    /\ mem.ext_ram_enabled
    /\ mem.rom_bank_num = 3
    /\ ReadMem8(mem, 16384) = RomByte(3 * 16384)

\* the addresses at which a write sets or clears the RAM enable of the cart
RamEnableWindow(m, addr) ==
    /\ m.mbc_mode # "None"
    /\ addr < 8192
    /\ m.mbc_mode = "MBC2" => (addr \div 256) % 2 = 0

InCartRam(addr) == addr >= 40960 /\ addr < 49152

\* an MBC3 whose RAM bank register selects an RTC register, not a RAM bank
RtcSelected(m) == m.mbc_mode = "MBC3" /\ m.ram_bank_num >= 8

\* offset into the cartridge RAM of an address of 0xA000-0xBFFF in the
\* selected RAM bank
BankedOffset(m, addr) ==
    addr - 40960
      + 8192 * (IF m.mbc_mode = "MBC5" /\ m.rumble_present
                THEN m.ram_bank_num % 8 ELSE m.ram_bank_num)

\* C17: ext_ram_enabled is true only for a cart that declares external RAM
\* and only after a write to the RAM-enable window whose low nibble is 0xA,
\* and any other value written there disables it; while it is false every
\* write to 0xA000-0xBFFF leaves the external RAM and the RTC registers
\* unchanged and every read of 0xA000-0xBFFF returns 0xFF; while it is true a
\* read whose banked offset lies past the end of the external RAM returns
\* 0xFF and such a write is discarded.
C17_RamEnable ==
    /\ [](mem.ext_ram_enabled => mem.ext_ram_present)
    /\ [][phase = "cpu"
             => /\ (~mem.ext_ram_enabled /\ mem'.ext_ram_enabled)
                      => \E w \in BusByteWrites(bus') :
                             RamEnableWindow(mem, w[1]) /\ w[2] % 16 = 10
                /\ (bus'.op = "write" /\ RamEnableWindow(mem, bus'.addr)
                                      /\ bus'.data % 16 # 10)
                      => ~mem'.ext_ram_enabled
                /\ (~mem.ext_ram_enabled /\ InCartRam(bus'.addr))
                      => /\ bus'.op = "read" => bus'.val = 255
                         /\ bus'.op = "write" => mem' = mem
                /\ (mem.ext_ram_enabled /\ InCartRam(bus'.addr) /\ ~RtcSelected(mem)
                       /\ BankedOffset(mem, bus'.addr) >= ExtRamSize(mem))
                      => /\ bus'.op = "read" => bus'.val = 255
                         /\ bus'.op = "write" => mem' = mem]_vars

\* C18: for MBC1 the low five bits of rom_bank_num are never zero: a write to
\* 0x2000-0x3FFF that would make the bank number 0x00, 0x20, 0x40 or 0x60
\* yields 0x01, 0x21, 0x41 or 0x61, and writes of the upper two bits or of
\* the mode bit never produce one of those four values.
C18_Mbc1BankNotZero ==
    /\ [](mem.mbc_mode = "MBC1" => mem.rom_bank_num % 32 # 0)
    /\ [][(phase = "cpu" /\ mem.mbc_mode = "MBC1" /\ bus'.op = "write")
             => /\ (bus'.addr >= 8192 /\ bus'.addr < 16384)
                      => mem'.rom_bank_num =
                            32 * ((mem.rom_bank_num \div 32) % 4)
                              + (IF bus'.data % 32 = 0 THEN 1 ELSE bus'.data % 32)
                /\ (bus'.addr >= 16384 /\ bus'.addr < 32768)
                      => /\ mem'.rom_bank_num \notin {0, 32, 64, 96}
                         /\ mem'.rom_bank_num % 32 = mem.rom_bank_num % 32]_vars

\* a write of 0x00 to the ROM bank register with upper bits 01 gave bank 0x21
C18_Witness ==
    /\ phase = "tick"
    /\ mem.mbc_mode = "MBC1"
    /\ bus.op = "write"
    /\ bus.addr = 8192
    /\ bus.data = 0
    /\ mem.rom_bank_num = 33

\* C19: for MBC1 the two upper bank bits live in one place chosen by the mode
\* bit: when ram_bank_mode is set rom_bank_num <= 0x1F and a write to
\* 0x4000-0x5FFF changes only ram_bank_num, to data & 3; when it is clear
\* ram_bank_num is 0 and such a write changes only bits 5-6 of rom_bank_num.
C19_Mbc1UpperBits ==
    /\ []((mem.mbc_mode = "MBC1" /\ mem.ram_bank_mode) => mem.rom_bank_num <= 31)
    /\ []((mem.mbc_mode = "MBC1" /\ ~mem.ram_bank_mode) => mem.ram_bank_num = 0)
    /\ [][(phase = "cpu" /\ mem.mbc_mode = "MBC1" /\ bus'.op = "write"
                         /\ bus'.addr >= 16384 /\ bus'.addr < 24576)
             => IF mem.ram_bank_mode
                THEN mem' = [mem EXCEPT !.ram_bank_num = bus'.data % 4]
                ELSE mem' = [mem EXCEPT !.rom_bank_num =
                                 (mem.rom_bank_num % 32) + 32 * (bus'.data % 4)]]_vars

\* the mode bit moved upper bits 11 from the ROM bank to the RAM bank number
C19_Witness ==
    /\ phase = "tick"
    /\ mem.mbc_mode = "MBC1"
    /\ bus.op = "write"
    /\ bus.addr = 24576
    /\ bus.data = 1
    /\ mem.ram_bank_mode
    /\ mem.ram_bank_num = 3
    /\ mem.rom_bank_num = 1

\* the RAM-enable state and ROM bank an MBC2 write of data selects
Mbc2RamEnabled(m, data) == m.ext_ram_present /\ data % 16 = 10

Mbc2RomBank(data) == IF data % 16 = 0 THEN 1 ELSE data % 16

\* C20 as stated: for MBC2 and every write address a in 0x0000-0x3FFF, if bit
\* 8 of a is clear the write updates the RAM enable (enabled iff the low
\* nibble of data is 0xA) and leaves rom_bank_num unchanged; if bit 8 of a is
\* set the write sets rom_bank_num to data & 0x0F (0 becoming 1) and leaves
\* the RAM enable unchanged.
C20_Mbc2Bit8 ==
    [][(phase = "cpu" /\ mem.mbc_mode = "MBC2" /\ bus'.op = "write"
                     /\ bus'.addr < 16384)
          => IF (bus'.addr \div 256) % 2 = 0
             THEN /\ mem'.ext_ram_enabled = Mbc2RamEnabled(mem, bus'.data)
                  /\ mem'.rom_bank_num = mem.rom_bank_num
             ELSE /\ mem'.rom_bank_num = Mbc2RomBank(bus'.data)
                  /\ mem'.ext_ram_enabled = mem.ext_ram_enabled]_vars

\* C20 amended: bit 8 of the address selects within each half only: in
\* 0x0000-0x1FFF a write with bit 8 clear updates the RAM enable and one with
\* bit 8 set changes nothing; in 0x2000-0x3FFF a write with bit 8 set sets
\* rom_bank_num to data & 0x0F (0 becoming 1) and one with bit 8 clear
\* changes nothing.
C20_Mbc2Windows ==
    [][(phase = "cpu" /\ mem.mbc_mode = "MBC2" /\ bus'.op = "write"
                     /\ bus'.addr < 16384)
          => mem' =
               IF bus'.addr < 8192 /\ (bus'.addr \div 256) % 2 = 0
               THEN [mem EXCEPT !.ext_ram_enabled = Mbc2RamEnabled(mem, bus'.data)]
               ELSE IF bus'.addr >= 8192 /\ (bus'.addr \div 256) % 2 = 1
               THEN [mem EXCEPT !.rom_bank_num = Mbc2RomBank(bus'.data)]
               ELSE mem]_vars

\* a write of 0x1A to 0x2000 left the RAM of an MBC2 disabled
C20_Witness ==
    /\ phase = "tick"
    /\ mem.mbc_mode = "MBC2"
    /\ bus.op = "write"
    /\ bus.addr = 8192
    /\ bus.data = 26
    /\ ~mem.ext_ram_enabled
    /\ mem.rom_bank_num = 3

\* C21: for an MBC2 cart with external RAM enabled, writing a byte v to an
\* address of 0xA000-0xA1FF and then reading that address returns a byte
\* whose low nibble is v & 0x0F.
C21_Mbc2NibbleRoundTrip ==
    (phase = "tick" /\ mem.mbc_mode = "MBC2" /\ mem.ext_ram_enabled
        /\ bus.op = "write" /\ bus.addr >= 40960 /\ bus.addr < 41472)
      => ReadMem8(mem, bus.addr) % 16 = bus.data % 16

\* C22 as stated: for MBC5 rom_bank_num is a 9-bit number: a write to
\* 0x2000-0x2FFF replaces bits 0-7 with the data byte and keeps bit 8, a
\* write to 0x3000-0x3FFF replaces only bit 8, from bit 0 of the data, and
\* keeps bits 0-7; bank 0 is selectable.
C22_Mbc5NineBits ==
    /\ [](mem.mbc_mode = "MBC5" => mem.rom_bank_num < 512)
    /\ [][(phase = "cpu" /\ mem.mbc_mode = "MBC5" /\ bus'.op = "write")
             => /\ (bus'.addr >= 8192 /\ bus'.addr < 12288)
                      => mem'.rom_bank_num =
                            256 * ((mem.rom_bank_num \div 256) % 2) + bus'.data
                /\ (bus'.addr >= 12288 /\ bus'.addr < 16384)
                      => mem'.rom_bank_num =
                            (mem.rom_bank_num % 256) + 256 * (bus'.data % 2)]_vars

\* C22 amended: for MBC5 rom_bank_num is a 16-bit number: a write to
\* 0x2000-0x2FFF replaces bits 0-7 with the data byte and keeps bits 8-15, a
\* write to 0x3000-0x3FFF replaces bits 8-15 with the data byte and keeps
\* bits 0-7; no other write changes it, and bank 0 is selectable.
C22_Mbc5SixteenBits ==
    /\ [](mem.mbc_mode = "MBC5" => mem.rom_bank_num < 65536)
    /\ [][(phase = "cpu" /\ mem.mbc_mode = "MBC5" /\ bus'.op = "write")
             => mem'.rom_bank_num =
                  IF bus'.addr >= 8192 /\ bus'.addr < 12288
                  THEN 256 * (mem.rom_bank_num \div 256) + bus'.data
                  ELSE IF bus'.addr >= 12288 /\ bus'.addr < 16384
                  THEN (mem.rom_bank_num % 256) + 256 * bus'.data
                  ELSE mem.rom_bank_num]_vars

\* an MBC5 holds bank 0x300 with the low byte written as 0: the high byte
\* register took the whole data byte 3 and the low byte register took 0
C22_Witness ==
    /\ phase = "tick"
    /\ mem.mbc_mode = "MBC5"
    /\ bus.op = "write"
    /\ bus.addr = 8192
    /\ bus.data = 0
    /\ mem.rom_bank_num = 768

----------------------------------------------------------------------------
(* Specification of the ROM window: the CPU selects ROM banks, reads the    *)
(* ROM and lets the OAM DMA read it                                         *)

\* machine cycles explored in the ROM specification
MaxRomTicks == 4

\* carts of 2, 4, 8, 16 and 128 banks
RomCarts == {NoMbcCart, Mbc1Cart, Mbc1SmallCart, Mbc2Cart, Mbc3Cart, Mbc5Cart}

\* the ROM bank registers of every MBC kind
RomControlAddrs == {8448, 12288, 16384}

\* banks below, at and above the bank count of the carts
RomControlData == {0, 1, 3, 4, 8, 255}

\* first and last byte of the fixed and of the switchable bank
RomReads == {0, 16383, 16384, 32767}

\* source pages in the fixed and in the switchable bank
RomDmaPages == {1, 64, 127}

RomCpuWrite == \E a \in RomControlAddrs, d \in RomControlData : CpuWrite(a, d)

RomCpuArm ==
    /\ dcall.from = "None"
    /\ \E p \in RomDmaPages : CpuWrite(65350, p)

RomCpuRead == \E a \in RomReads : CpuRead(a)

RomTick == HardwareTick(0)

NextRom ==
    /\ ticks < MaxRomTicks
    /\ (RomCpuWrite \/ RomCpuArm \/ RomCpuRead \/ RomTick)

InitRom == InitCart({<<"DMG", "DMG", 43980>>}, RomCarts)

SpecRom == InitRom /\ [][NextRom]_vars

\* the ROM offset the switchable window maps address a to
BankedRomOffset(m, a) == (m.rom_bank_num % m.num_rom_banks) * 16384 + (a - 16384)

\* the byte of the ROM image the bus maps address a to
MappedRomByte(m, a) ==
    IF a < 16384 THEN RomByte(a) ELSE RomByte(BankedRomOffset(m, a))

\* C23: for every reachable rom_bank_num and every address a of 0x4000-0x7FFF
\* the CPU read and the OAM DMA source read return
\* rom[(rom_bank_num mod num_rom_banks)*0x4000 + (a - 0x4000)], the index
\* computed by the code is that offset and lies below num_rom_banks*0x4000,
\* also when rom_bank_num mod num_rom_banks is 0; reads of 0x0000-0x3FFF
\* return rom[a] regardless of the bank state.
C23_RomBankRead ==
    /\ [](\A a \in {16384, 32767} :
              /\ RomBankIndex(mem, a) = BankedRomOffset(mem, a)
              /\ RomBankIndex(mem, a) < mem.num_rom_banks * 16384)
    /\ [][(phase = "cpu" /\ bus'.op = "read" /\ bus'.addr < 32768
                         /\ ~mem.dma_blocking_memory)
             => bus'.val = MappedRomByte(mem, bus'.addr)]_vars
    /\ [][(phase = "tick" /\ DmaFetches(mem)
              /\ U16(mem.oam_transfer_addr + mem.bytes_read) < 32768)
             => mem'.oam_transfer_byte =
                   MappedRomByte(mem, U16(mem.oam_transfer_addr + mem.bytes_read))]_vars

\* the OAM DMA fetched the first byte of the switchable window while an MBC1
\* of 4 banks held rom_bank_num 4, which selects bank 0
C23_Witness ==
    /\ phase = "cpu"
    /\ mem.mbc_mode = "MBC1"
    /\ mem.num_rom_banks = 4
    /\ mem.rom_bank_num = 4
    /\ mem.state_oam_dma = "Active"
    /\ mem.oam_dma_start = 64
    /\ mem.bytes_read = 1
    /\ mem.oam_transfer_byte = RomByte(0)

----------------------------------------------------------------------------
(* CPU: the flag register and the 8-bit operations of Ops.cpp.  Of the     *)
(* register file A and F are kept; the content of another register or of  *)
(* the byte at HL is an operand val of the operation, and the result an    *)
(* operation stores there is not kept.                                     *)

RECURSIVE BitXorN(_, _, _)
BitXorN(a, b, n) ==
    IF n = 0 THEN 0
    ELSE (IF a % 2 # b % 2 THEN 1 ELSE 0) + 2 * BitXorN(a \div 2, b \div 2, n - 1)

\* the flag bits of F
zero == 128
sub == 64
half == 32
carry == 16

\* regs.reg8[F] |= flag, regs.reg8[F] &= ~flag
SetFlag(c, flag, val) ==
    [c EXCEPT !.f = IF val THEN BitOrN(@, flag, 8) ELSE BitAndN(@, 255 - flag, 8)]

SetZero(c, val) == SetFlag(c, zero, val)
SetSub(c, val) == SetFlag(c, sub, val)
SetHalf(c, val) == SetFlag(c, half, val)
SetCarryFlag(c, val) == SetFlag(c, carry, val)

Sub(c) == BitAndN(c.f, sub, 8) \div 64
Half(c) == BitAndN(c.f, half, 8) \div 32
Carry(c) == BitAndN(c.f, carry, 8) \div 16

\* regs.reg8[r]: register A, or the operand val for a register that is not kept
Reg8(c, r, val) == IF r = "A" THEN c.a ELSE val

\* regs.reg8[r] = x
SetReg8(c, r, x) == IF r = "A" THEN [c EXCEPT !.a = x] ELSE c

\* a POP AF that keeps the low nibble of the byte read from the stack
PopAF_NoMask(c, lo, hi) == [c EXCEPT !.f = lo, !.a = hi]

\* Pop(AF): F takes the first stack byte, A the second; the low nybble of
\* the flags register is always 0
PopAF(c, lo, hi) == [c EXCEPT !.f = BitAndN(lo, 240, 8), !.a = hi]

AddImmediate(c, val) ==
    LET tmp16 == c.a + val
    IN  [SetSub(SetZero(SetCarryFlag(SetHalf(c, (c.a % 16) + (val % 16) >= 16),
                                     tmp16 >= 256),
                        tmp16 % 256 = 0),
                FALSE)
         EXCEPT !.a = U8(tmp16)]

AddImmediateWithCarry(c, val) ==
    LET tmp16 == c.a + val + Carry(c)
    IN  [SetSub(SetZero(SetCarryFlag(SetHalf(c, (c.a % 16) + (val % 16) + Carry(c) >= 16),
                                     tmp16 >= 256),
                        tmp16 % 256 = 0),
                FALSE)
         EXCEPT !.a = U8(tmp16)]

SubImmediate(c, val) ==
    SetZero([SetSub(SetCarryFlag(SetHalf(c, (c.a % 16) < (val % 16)), c.a < val), TRUE)
             EXCEPT !.a = U8(c.a - val)],
            U8(c.a - val) = 0)

SubImmediateWithCarry(c, val) ==
    LET carry_val == Carry(c)
    IN  SetZero([SetSub(SetCarryFlag(SetHalf(c, (c.a % 16) < (val % 16) + carry_val),
                                     c.a < val + carry_val),
                        TRUE)
                 EXCEPT !.a = U8(c.a - (val + carry_val))],
                U8(c.a - (val + carry_val)) = 0)

IncReg8(c, r, val) ==
    LET v == Reg8(c, r, val)
    IN  SetSub(SetZero(SetReg8(SetHalf(c, v % 16 = 15), r, U8(v + 1)), U8(v + 1) = 0), FALSE)

DecReg8(c, r, val) ==
    LET v == Reg8(c, r, val)
    IN  SetSub(SetZero(SetReg8(SetHalf(c, v % 16 = 0), r, U8(v - 1)), U8(v - 1) = 0), TRUE)

\* the flags of the three logical operations once A holds the result x
LogicFlags(c, x, h) ==
    SetCarryFlag(SetHalf(SetSub(SetZero([c EXCEPT !.a = x], x = 0), FALSE), h), FALSE)

AndImmediate(c, val) == LogicFlags(c, BitAndN(c.a, val, 8), TRUE)

OrImmediate(c, val) == LogicFlags(c, BitOrN(c.a, val, 8), FALSE)

XorImmediate(c, val) == LogicFlags(c, BitXorN(c.a, val, 8), FALSE)

CompareImmediate(c, val) ==
    SetCarryFlag(SetHalf(SetSub(SetZero(c, c.a - val = 0), TRUE),
                         (c.a % 16) < (val % 16)),
                 c.a < val)

DecimalAdjustA(c) ==
    LET c1 == IF Sub(c) = 1
              THEN [c EXCEPT !.a = U8(@ - (IF Carry(c) = 1 THEN 96 ELSE 0))]
              ELSE IF Carry(c) = 1 \/ c.a > 153
                   THEN SetCarryFlag([c EXCEPT !.a = U8(@ + 96)], TRUE)
                   ELSE c
        c2 == IF Sub(c) = 1
              THEN [c1 EXCEPT !.a = U8(@ - (IF Half(c) = 1 THEN 6 ELSE 0))]
              ELSE IF Half(c) = 1 \/ c1.a % 16 > 9
                   THEN [c1 EXCEPT !.a = U8(@ + 6)]
                   ELSE c1
    IN  SetHalf(SetZero(c2, c2.a = 0), FALSE)

ComplementA(c) == SetHalf(SetSub([c EXCEPT !.a = 255 - @], TRUE), TRUE)

SetCarry(c) == SetHalf(SetSub(SetCarryFlag(c, TRUE), FALSE), FALSE)

ComplementCarry(c) == SetHalf(SetSub(SetCarryFlag(c, Carry(c) = 0), FALSE), FALSE)

\* the flags of a rotate or shift that stored x and shifted out the bit out
ShiftFlags(c, r, x, out) ==
    SetCarryFlag(SetHalf(SetSub(SetZero(SetReg8(c, r, x), x = 0), FALSE), FALSE), out)

RotateLeft(c, r, val) ==
    LET v == Reg8(c, r, val)
    IN  ShiftFlags(c, r, U8(2 * v) + (v \div 128), v >= 128)

RotateLeftThroughCarry(c, r, val) ==
    LET v == Reg8(c, r, val)
    IN  ShiftFlags(c, r, U8(2 * v) + Carry(c), v >= 128)

RotateRight(c, r, val) ==
    LET v == Reg8(c, r, val)
    IN  ShiftFlags(c, r, (v \div 2) + 128 * (v % 2), v % 2 = 1)

RotateRightThroughCarry(c, r, val) ==
    LET v == Reg8(c, r, val)
    IN  ShiftFlags(c, r, (v \div 2) + 128 * Carry(c), v % 2 = 1)

ShiftLeft(c, r, val) ==
    LET v == Reg8(c, r, val)
    IN  ShiftFlags(c, r, U8(2 * v), v >= 128)

ShiftRightArithmetic(c, r, val) ==
    LET v == Reg8(c, r, val)
    IN  ShiftFlags(c, r, (v \div 2) + (IF v >= 128 THEN 128 ELSE 0), v % 2 = 1)

ShiftRightLogical(c, r, val) ==
    LET v == Reg8(c, r, val)
    IN  ShiftFlags(c, r, v \div 2, v % 2 = 1)

SwapNybbles(c, r, val) ==
    LET v == Reg8(c, r, val)
    IN  ShiftFlags(c, r, U8(16 * v) + (v \div 16), FALSE)

TestBit(c, bit, r, val) ==
    SetHalf(SetSub(SetZero(c, (Reg8(c, r, val) \div (2 ^ bit)) % 2 = 0), FALSE), TRUE)

ResetBit(c, bit, r, val) ==
    LET v == Reg8(c, r, val)
    IN  SetReg8(c, r, v - (2 ^ bit) * ((v \div (2 ^ bit)) % 2))

SetBit(c, bit, r, val) ==
    LET v == Reg8(c, r, val)
    IN  SetReg8(c, r, v + (2 ^ bit) * (1 - ((v \div (2 ^ bit)) % 2)))

----------------------------------------------------------------------------
(* Specification of the flag register: the CPU executes the 8-bit          *)
(* operations that touch F, in any order and with any operand              *)

\* operand bytes: immediates, contents of registers B-L and of the byte at HL
AluBytes == {0, 1, 15, 16, 128, 255}

\* bytes on the stack read by POP AF
StackBytes == {0, 15, 90, 165, 240, 255}

\* bit numbers of the bit operations
AluBits == {0, 3, 7}

\* A and F when the first operation executes
AluStarts == {<<1, 176>>, <<17, 128>>, <<0, 0>>}

\* the operand registers: A, and any register that is not kept
AluRegs == {"A", "r"}

\* one operation executes: c is the Cpu object after it
Execute(name, arg, c) ==
    /\ cpu.cpu_mode = "Running"
    /\ ~cpu.hung
    /\ cpu' = [c EXCEPT !.last = <<name, arg>>]
    /\ UNCHANGED <<mem, timer, bus, tcall, dcall, phase, ticks, emu, opts, arm>>

AluPop == \E lo \in StackBytes, hi \in StackBytes : Execute("Pop", lo, PopAF(cpu, lo, hi))

AluArithmetic ==
    \E val \in AluBytes :
        \/ Execute("Alu", 0, AddImmediate(cpu, val))
        \/ Execute("Alu", 0, AddImmediateWithCarry(cpu, val))
        \/ Execute("Alu", 0, SubImmediate(cpu, val))
        \/ Execute("Alu", 0, SubImmediateWithCarry(cpu, val))
        \/ Execute("Alu", 0, CompareImmediate(cpu, val))
        \/ \E r \in AluRegs : Execute("Alu", 0, IncReg8(cpu, r, val))
        \/ \E r \in AluRegs : Execute("Alu", 0, DecReg8(cpu, r, val))

AluLogic ==
    \E val \in AluBytes :
        \/ Execute("Alu", 0, AndImmediate(cpu, val))
        \/ Execute("Alu", 0, OrImmediate(cpu, val))
        \/ Execute("Alu", 0, XorImmediate(cpu, val))

AluMisc ==
    \/ Execute("Alu", 0, DecimalAdjustA(cpu))
    \/ Execute("Alu", 0, ComplementA(cpu))
    \/ Execute("Alu", 0, SetCarry(cpu))
    \/ Execute("Alu", 0, ComplementCarry(cpu))

AluShift ==
    \E val \in AluBytes, r \in AluRegs :
        \/ Execute("Alu", 0, RotateLeft(cpu, r, val))
        \/ Execute("Alu", 0, RotateLeftThroughCarry(cpu, r, val))
        \/ Execute("Alu", 0, RotateRight(cpu, r, val))
        \/ Execute("Alu", 0, RotateRightThroughCarry(cpu, r, val))
        \/ Execute("Alu", 0, ShiftLeft(cpu, r, val))
        \/ Execute("Alu", 0, ShiftRightArithmetic(cpu, r, val))
        \/ Execute("Alu", 0, ShiftRightLogical(cpu, r, val))
        \/ Execute("Alu", 0, SwapNybbles(cpu, r, val))

AluBit ==
    \E val \in AluBytes, r \in AluRegs, bit \in AluBits :
        \/ Execute("Alu", 0, TestBit(cpu, bit, r, val))
        \/ Execute("Alu", 0, ResetBit(cpu, bit, r, val))
        \/ Execute("Alu", 0, SetBit(cpu, bit, r, val))

NextAlu == AluPop \/ AluArithmetic \/ AluLogic \/ AluMisc \/ AluShift \/ AluBit

InitAlu ==
    /\ InitMachine({<<"DMG", "DMG", 43980>>}, {NoMbcCart})
    /\ \E st \in AluStarts : cpu = [PowerOnCpu EXCEPT !.a = st[1], !.f = st[2]]
    /\ emu = PowerOnEmu
    /\ opts = NoOptions
    /\ arm = ResetArm

SpecAlu == InitAlu /\ [][NextAlu]_vars

\* C24: starting from a flag register whose low nibble is 0, after any
\* sequence of 8-bit CPU operations (arithmetic, logic, rotates and shifts,
\* bit operations, DAA, CPL, SCF, CCF, and POP AF with any stack bytes) the
\* low nibble of F is 0 and A is a byte.
C24_FlagLowNibble ==
    /\ cpu.f % 16 = 0
    /\ cpu.f \in 0 .. 255
    /\ cpu.a \in 0 .. 255

\* POP AF read 0xFF for F while all four flags were clear: the four flags
\* are set and the low nibble is clear
C24_Witness ==
    /\ cpu.last = <<"Pop", 255>>
    /\ cpu.f = 240
    /\ cpu.a = 165

----------------------------------------------------------------------------
(* Specification of the I/O registers: after some machine cycles in which  *)
(* the CPU programs a few registers and the LCD changes mode, the CPU      *)
(* writes one register of 0xFF00-0xFF7F                                    *)

\* machine cycles explored in the I/O register specification
MaxIoTicks == 2

\* the I/O register window
IoAddrs == 65280 .. 65407

\* bytes written: each bit alone, and patterns with each bit set and clear
IoBytes == {0, 1, 2, 4, 8, 16, 32, 64, 128, 15, 48, 85, 120, 170, 240, 255}

\* P1, IF, LCDC, STAT, KEY1 and SVBK programmed before the write
IoSetupWrites ==
    {<<65280, 16>>, <<65295, 31>>, <<65344, 128>>, <<65345, 120>>, <<65357, 1>>,
     <<65392, 3>>}

IoCpuSetup ==
    /\ ticks < MaxIoTicks - 1
    /\ \E w \in IoSetupWrites : CpuWrite(w[1], w[2])

IoCpuIdle ==
    /\ ticks < MaxIoTicks - 1
    /\ CpuInternal

\* the write of the last machine cycle: any register, any of the bytes
IoCpuWrite ==
    /\ ticks = MaxIoTicks - 1
    /\ \E a \in IoAddrs, v \in IoBytes : CpuWrite(a, v)

IoTick == \E step \in {0, 1, 2} : HardwareTick(step)

NextIo ==
    /\ ticks < MaxIoTicks
    /\ (IoCpuSetup \/ IoCpuIdle \/ IoCpuWrite \/ IoTick)

SpecIo == Init /\ [][NextIo]_vars

\* DIV: a write has a side effect instead of storing the byte
IoSideEffectOnly(addr) == addr = 65284

\* a register of which a write stores bits
IoWritable(m, addr) ==
    \/ addr \in {65280, 65285, 65286, 65287, 65295, 65345, 65350}
    \/ (addr \in {65359, 65392} /\ m.game_mode = "CGB")
    \/ IoWriteMask(m, addr) >= 0

\* the bits of a register a write cannot change: the button bits of P1 and
\* the mode and coincidence bits of STAT
IoReadOnlyBits(addr) ==
    CASE addr = 65280 -> 15
      [] addr = 65345 -> 7
      [] OTHER -> 0

\* the bits of the written byte a register stores
IoStoredBits(m, addr) ==
    CASE addr = 65280 -> 48
      [] addr \in {65285, 65286, 65350} -> 255
      [] addr = 65287 -> 7
      [] addr = 65295 -> 31
      [] addr = 65345 -> 120
      [] addr = 65359 -> 1
      [] addr = 65392 -> 7
      [] OTHER -> IoWriteMask(m, addr)

\* the bits of a register that read as 1 whatever was written
IoAlwaysOne(m, addr) ==
    CASE addr = 65280 -> 192
      [] addr \in {65285, 65286, 65350} -> 0
      [] addr = 65287 -> 248
      [] addr = 65295 -> 224
      [] addr = 65345 -> 128
      [] addr = 65359 -> 254
      [] addr = 65392 -> 248
      [] IoReadOnes(m, addr) >= 0 -> IoReadOnes(m, addr)
      [] OTHER -> 255

\* the byte read back from a register after v was written over the state m
IoReadBack(m, addr, v) ==
    BitOr(BitOr(BitAnd(v, IoStoredBits(m, addr)), IoAlwaysOne(m, addr)),
          BitAnd(ReadMem8(m, addr), IoReadOnlyBits(addr)))

\* C27: for every writable I/O register of 0xFF00-0xFF7F and every byte v,
\* writing v and reading the register back with no tick in between returns
\* (v AND the write mask) OR the always-one and read-only bits, and the
\* write leaves the read-only bits (STAT bits 0-2, P1 bits 0-3) unchanged;
\* DIV, a side-effect register, reads 0 after any write.
C27_IoReadBack ==
    [][(phase = "cpu" /\ bus'.op = "write" /\ bus'.addr \in IoAddrs)
          => /\ IoWritable(mem, bus'.addr)
                   => ReadMem8(mem', bus'.addr)
                         = IoReadBack(mem, bus'.addr, bus'.data)
             /\ IoSideEffectOnly(bus'.addr) => ReadMem8(mem', bus'.addr) = 0]_vars

----------------------------------------------------------------------------
(* HALT and STOP *)

\* Memory::RequestedEnabledInterrupts: an interrupt is requested in IF and
\* enabled in IE (the byte at 0xFFFF, kept at the end of high RAM)
RequestedEnabledInterrupts(m) ==
    BitAnd(m.interrupt_flags, VecGet(m.hram, 127)) # 0

\* GameBoy::GameModeCgb
GameModeCgb(m) == m.game_mode = "CGB"

\* a HALT that looks only at the pending interrupts
Halt_IgnoreIme(c, m) ==
    [c EXCEPT !.cpu_mode = IF RequestedEnabledInterrupts(m)
                           THEN "HaltBug" ELSE "Halted"]

\* Ops.cpp:614-623
Halt(c, m) ==
    [c EXCEPT !.cpu_mode = IF ~c.interrupt_master_enable
                              /\ RequestedEnabledInterrupts(m)
                           THEN "HaltBug" ELSE "Halted"]

\* a halted tick that also advances the OAM DMA
HaltedTick_WithDma(m, t, lcd_step) ==
    LET a == UpdateTimer([mem |-> UpdateOAM_DMA(m), timer |-> t])
    IN  [a EXCEPT !.mem = UpdateLcd(a.mem, lcd_step)]

\* the body of the loop of HaltedTick: timer and LCD only; the OAM DMA does
\* not advance and the IF-written flag is not cleared
HaltedTick(m, t, lcd_step) ==
    LET a == UpdateTimer([mem |-> m, timer |-> t])
    IN  [a EXCEPT !.mem = UpdateLcd(a.mem, lcd_step)]

\* GameBoy::StopLcd: bit 7 of LCDC is remembered, then cleared
LcdOnWhenStopped(m) == BitAnd(VecGet(m.io, 65344), 128)

StopLcd(m) == [m EXCEPT !.io = VecSet(@, 65344, BitAnd(VecGet(@, 65344), 127))]

\* a STOP that tests the joypad lines before the speed switch
Stop_JoypadFirst(c, m) ==
    LET d == [c EXCEPT !.pc = (@ + 1) % 65536,
                       !.lcd_on_when_stopped = LcdOnWhenStopped(m)]
    IN  IF BitAnd(ReadMem8(m, 65280), 48) = 48
        THEN [d EXCEPT !.hung = TRUE]
        ELSE IF GameModeCgb(m) /\ BitAnd(ReadMem8(m, 65357), 1) # 0
        THEN [d EXCEPT !.speed_switch_cycles = 130992, !.cpu_mode = "Stopped"]
        ELSE [d EXCEPT !.cpu_mode = "Stopped"]

\* Ops.cpp:625-646, the CPU's part: m is the memory after HaltedTick; the
\* exception is recorded in hung and leaves cpu_mode as it was
Stop(c, m) ==
    LET d == [c EXCEPT !.pc = (@ + 1) % 65536,
                       !.lcd_on_when_stopped = LcdOnWhenStopped(m)]
    IN  IF GameModeCgb(m) /\ BitAnd(ReadMem8(m, 65357), 1) # 0
        THEN [d EXCEPT !.speed_switch_cycles = 130992, !.cpu_mode = "Stopped"]
        ELSE IF BitAnd(ReadMem8(m, 65280), 48) = 48
        THEN [d EXCEPT !.hung = TRUE]
        ELSE [d EXCEPT !.cpu_mode = "Stopped"]

----------------------------------------------------------------------------
(* Specification of HALT and STOP: the CPU programs IE, IF, KEY1, P1 and   *)
(* LCDC, disables interrupts, and executes HALT or STOP                    *)

\* machine cycles explored in the HALT and STOP specification
MaxModeTicks == 3

\* IE, IF, KEY1, P1 and LCDC
ModeSetupWrites ==
    {<<65535, 1>>, <<65535, 4>>, <<65295, 1>>, <<65295, 4>>, <<65357, 1>>,
     <<65280, 0>>, <<65280, 16>>, <<65280, 48>>, <<65344, 128>>}

CpuRuns == cpu.cpu_mode = "Running" /\ ~cpu.hung

ModeCpuSetup ==
    /\ CpuRuns
    /\ \E w \in ModeSetupWrites : CpuWrite(w[1], w[2])

ModeCpuIdle == CpuRuns /\ CpuInternal

\* DI: the master enable is cleared at once
DisableInterrupts ==
    /\ phase = "cpu"
    /\ CpuRuns
    /\ cpu.interrupt_master_enable
    /\ cpu' = [cpu EXCEPT !.interrupt_master_enable = FALSE, !.last = <<"DI", 0>>]
    /\ UNCHANGED <<mem, timer, bus, tcall, dcall, phase, ticks, emu, opts, arm>>

ModeHalt ==
    /\ phase = "cpu"
    /\ CpuRuns
    /\ cpu' = [Halt(cpu, mem) EXCEPT !.last = <<"Halt", 0>>]
    /\ UNCHANGED <<mem, timer, bus, tcall, dcall, phase, ticks, emu, opts, arm>>

\* STOP: the second byte is skipped, the peripherals tick once, the LCD is
\* turned off, then the speed switch and the joypad lines are examined
ModeStop ==
    /\ phase = "cpu"
    /\ CpuRuns
    /\ \E step \in {0, 1, 2} :
         \E r \in {HaltedTick(mem, timer, step)} :
           /\ mem' = StopLcd(r.mem)
           /\ timer' = r.timer
           /\ tcall' = r.call
           /\ cpu' = [Stop(cpu, r.mem) EXCEPT !.last = <<"Stop", 0>>]
    /\ ticks' = ticks + 1
    /\ UNCHANGED <<bus, dcall, phase, emu, opts, arm>>

ModeTick == \E step \in {0, 1, 2} : HardwareTick(step)

NextMode ==
    /\ ticks < MaxModeTicks
    /\ (ModeCpuSetup \/ ModeCpuIdle \/ DisableInterrupts \/ ModeHalt \/ ModeStop
          \/ ModeTick)

SpecMode == Init /\ [][NextMode]_vars

\* the step is the execution of the instruction called name
Executes(name) == cpu'.last = <<name, 0>> /\ cpu' # cpu

\* C25: HALT puts the CPU in HaltBug exactly when IME is false and IE AND IF
\* is nonzero at the moment it executes, and in Halted otherwise; it changes
\* no register, flag or memory byte.
C25_HaltMode ==
    [][Executes("Halt")
          => /\ cpu'.cpu_mode
                  = IF ~cpu.interrupt_master_enable
                       /\ BitAnd(BitAnd(ReadMem8(mem, 65295), 31),
                                 ReadMem8(mem, 65535)) # 0
                    THEN "HaltBug" ELSE "Halted"
             /\ [cpu' EXCEPT !.cpu_mode = cpu.cpu_mode, !.last = cpu.last] = cpu
             /\ mem' = mem
             /\ timer' = timer]_vars

\* a HALT with interrupts disabled and a timer interrupt pending
C25_Witness ==
    /\ cpu.last = <<"Halt", 0>>
    /\ cpu.cpu_mode = "HaltBug"
    /\ ~cpu.interrupt_master_enable
    /\ mem.interrupt_flags = 4
    /\ VecGet(mem.hram, 127) = 4

\* a speed switch is armed: CGB mode and bit 0 of KEY1 set
SpeedSwitchArmed(m) == m.game_mode = "CGB" /\ ReadMem8(m, 65357) % 2 = 1

\* both select bits of P1 read 1
JoypadLinesDisabled(m) == BitAnd(ReadMem8(m, 65280), 48) = 48

\* C26: STOP fails with the CPU-hung error exactly when no speed switch is
\* armed and P1's select bits 4 and 5 both read 1; when it fails cpu_mode is
\* not set to Stopped; otherwise cpu_mode becomes Stopped, and
\* speed_switch_cycles is set to 130992 exactly when a switch is armed.
C26_StopMode ==
    [][Executes("Stop")
          => /\ cpu'.hung <=> (~SpeedSwitchArmed(mem) /\ JoypadLinesDisabled(mem))
             /\ cpu'.hung => cpu'.cpu_mode = "Running"
             /\ ~cpu'.hung => cpu'.cpu_mode = "Stopped"
             /\ cpu'.speed_switch_cycles
                  = IF SpeedSwitchArmed(mem) THEN 130992
                    ELSE cpu.speed_switch_cycles]_vars

\* a STOP with both joypad lines disabled that starts a speed switch
C26_Witness ==
    /\ cpu.last = <<"Stop", 0>>
    /\ cpu.cpu_mode = "Stopped"
    /\ cpu.speed_switch_cycles = 130992
    /\ ~cpu.hung
    /\ JoypadLinesDisabled(mem)
    /\ VecGet(mem.io, 65344) = 0
    /\ cpu.lcd_on_when_stopped = 128

----------------------------------------------------------------------------
(* The emulator loop *)

\* GameBoy.cpp:61
cycles_per_frame == 69920

\* x << n for n in {0, 1}
ShiftLeftBy(x, n) == IF n = 1 THEN 2 * x ELSE x

\* GameBoy.cpp:107-118: the callbacks registered for the window events
Callback(e, ev) ==
    CASE ev = "Quit" -> [e EXCEPT !.quit = TRUE]
      [] ev = "Pause" -> [e EXCEPT !.pause = ~e.pause]
      [] ev = "HideWindow" -> [e EXCEPT !.old_pause = e.pause, !.pause = TRUE]
      [] ev = "ShowWindow" -> [e EXCEPT !.pause = e.old_pause]
      [] ev = "FrameAdvance" -> [e EXCEPT !.frame_advance = TRUE]

\* a test of the pause flag alone
Paused_IgnoreAdvance(e) == e.pause

\* GameBoy.cpp:76: the test made after polling
Paused(e) == e.pause /\ ~e.frame_advance

\* a paused iteration that forgets the overspent cycles
PausedIteration_DropOverspent(e) ==
    [e EXCEPT !.ran = FALSE, !.cycles_run = 0, !.joypad_updated = FALSE,
              !.audio_pushed = FALSE, !.rendered = TRUE, !.idle = @ + 1,
              !.overspent_cycles = 0]

\* GameBoy.cpp:76-80: delay, render the front buffer, continue
PausedIteration(e) ==
    [e EXCEPT !.ran = FALSE, !.cycles_run = 0, !.joypad_updated = FALSE,
              !.audio_pushed = FALSE, !.rendered = TRUE, !.idle = @ + 1]

\* GameBoy.cpp:82-101: a frame; RunFor runs the CPU until the target is used
\* up, returns r = target - cycles run, and may have switched the speed to ds
FrameIteration(e, r, ds) ==
    LET target == ShiftLeftBy(cycles_per_frame, e.double_speed) + e.overspent_cycles
    IN  [e EXCEPT !.frame_advance = FALSE, !.joypad_updated = TRUE,
                  !.target_cycles = target, !.overspent_cycles = r,
                  !.returned = r, !.cycles_run = target - r,
                  !.double_speed = ds, !.ran = TRUE, !.audio_pushed = TRUE,
                  !.rendered = TRUE, !.waited = e.idle, !.idle = 0]

\* an iteration whose paused branch goes back to polling without testing quit
LoopBody_PausedIgnoresQuit(e, r, ds) ==
    LET q == [e EXCEPT !.iterations = @ + 1, !.events = <<>>,
                       !.pause_at_top = e.pause,
                       !.running = ~e.quit \/ Paused(e),
                       !.audio_paused = e.quit /\ ~Paused(e)]
    IN  IF Paused(e) THEN PausedIteration(q) ELSE FrameIteration(q, r, ds)

\* GameBoy.cpp:76-104: the iteration after PollEvents, up to the next test
\* of the loop condition; when the test fails the loop is left and the audio
\* is paused
LoopBody(e, r, ds) ==
    LET q == [e EXCEPT !.iterations = @ + 1, !.events = <<>>,
                       !.pause_at_top = e.pause, !.running = ~e.quit,
                       !.audio_paused = e.quit]
    IN  IF Paused(e) THEN PausedIteration(q) ELSE FrameIteration(q, r, ds)

----------------------------------------------------------------------------
(* Specification of the emulator loop: PollEvents calls the callbacks of   *)
(* a few window events, then the rest of the iteration runs; RunFor        *)
(* returns how far the CPU ran past its target                             *)

\* iterations of the loop explored
MaxIterations == 3

\* events polled in one iteration
MaxEvents == 2

\* the values returned by RunFor: the last instruction of a frame ends at
\* the target or up to 24 cycles after it
RunForReturns == {0, -4, -8, -24}

\* PollEvents delivers one more event
Polls(ev) ==
    /\ emu.running
    /\ emu.iterations < MaxIterations
    /\ Len(emu.events) < MaxEvents
    /\ emu' = [Callback(emu, ev) EXCEPT !.events = Append(@, ev)]
    /\ UNCHANGED <<mem, timer, bus, tcall, dcall, phase, ticks, cpu, opts, arm>>

OnQuit == Polls("Quit")

OnPause == Polls("Pause")

OnHideWindow == Polls("HideWindow")

OnShowWindow == Polls("ShowWindow")

OnFrameAdvance == Polls("FrameAdvance")

EmulatorLoop ==
    /\ emu.running
    /\ emu.iterations < MaxIterations
    /\ \E r \in RunForReturns, ds \in {0, 1} : emu' = LoopBody(emu, r, ds)
    /\ UNCHANGED <<mem, timer, bus, tcall, dcall, phase, ticks, cpu, opts, arm>>

NextLoop ==
    \/ OnQuit
    \/ OnPause
    \/ OnHideWindow
    \/ OnShowWindow
    \/ OnFrameAdvance
    \/ EmulatorLoop

SpecLoop == Init /\ [][NextLoop]_vars

\* the step finishes an iteration of the loop
Iterates == emu'.iterations = emu.iterations + 1

\* C28: each executed frame's target is (69920 << double_speed) plus the
\* non-positive value returned by the previous RunFor (0 before the first);
\* the target never exceeds the nominal value, and an overshoot is deducted
\* exactly once, from the next executed frame, also across paused iterations.
C28_FrameTarget ==
    [][(Iterates /\ emu'.ran)
          => /\ emu'.target_cycles
                  = ShiftLeftBy(69920, emu.double_speed) + emu.returned
             /\ emu.returned <= 0
             /\ emu'.target_cycles <= ShiftLeftBy(69920, emu.double_speed)
             /\ emu'.cycles_run = emu'.target_cycles - emu'.returned]_vars

\* a double-speed frame that follows a paused iteration and an overshoot of
\* 24 cycles
C28_Witness ==
    /\ emu.ran
    /\ emu.waited >= 1
    /\ emu.target_cycles = 139816

\* C29: the pause flag is examined after polling; a paused iteration runs no
\* CPU cycles, updates no joypad, pushes no audio and renders the front
\* buffer; FrameAdvance while paused makes exactly one frame run, after
\* which frame_advance is clear and the loop is paused again.
C29_PausedIteration ==
    [][IF Iterates
       THEN /\ emu'.ran <=> ~(emu.pause /\ ~emu.frame_advance)
            /\ ~emu'.ran => /\ emu'.cycles_run = 0
                            /\ ~emu'.joypad_updated
                            /\ ~emu'.audio_pushed
                            /\ emu'.rendered
                            /\ emu'.overspent_cycles = emu.overspent_cycles
            /\ emu'.ran => /\ emu'.cycles_run > 0
                           /\ emu'.joypad_updated
                           /\ emu'.audio_pushed
                           /\ emu'.rendered
            /\ ~emu'.frame_advance
            /\ emu'.pause = emu.pause
            /\ (emu.pause_at_top /\ emu.events = <<"FrameAdvance">>)
                  => emu'.ran /\ emu'.pause
            /\ (emu.pause_at_top /\ emu.events = <<>>) => ~emu'.ran
       ELSE /\ emu'.ran = emu.ran
            /\ emu'.cycles_run = emu.cycles_run
            /\ emu'.joypad_updated = emu.joypad_updated
            /\ emu'.audio_pushed = emu.audio_pushed]_vars

\* a frame advanced out of a pause that lasted at least one iteration, the
\* loop being paused again
C29_Witness ==
    /\ emu.ran
    /\ emu.pause
    /\ emu.pause_at_top
    /\ ~emu.frame_advance
    /\ emu.events = <<>>
    /\ emu.waited >= 1
    /\ emu.cycles_run > 0

----------------------------------------------------------------------------
(* The path of the save file; a path is a sequence of characters *)

\* the characters of ".sav"
sav == <<".", "s", "a", "v">>

\* std::string::rfind: the last index of ch in p, 0 if there is none
RFind(p, ch) ==
    IF \E i \in 1 .. Len(p) : p[i] = ch
    THEN CHOOSE i \in 1 .. Len(p) :
             p[i] = ch /\ \A j \in i + 1 .. Len(p) : p[j] # ch
    ELSE 0

\* the path cut at a dot found at index last_dot
SaveGamePathAt(rom_path, last_dot) ==
    IF last_dot = 0
    THEN [result |-> "No file extension found.", save_path |-> <<>>]
    ELSE IF SubSeq(rom_path, last_dot, Len(rom_path)) = sav
    THEN [result |-> "You tried to run a save file instead of a ROM.",
          save_path |-> <<>>]
    ELSE [result |-> "ok", save_path |-> SubSeq(rom_path, 1, last_dot - 1) \o sav]

\* a path cut at its first dot
SaveGamePath_FirstDot(rom_path) ==
    SaveGamePathAt(rom_path,
                   IF RFind(rom_path, ".") = 0 THEN 0
                   ELSE CHOOSE i \in 1 .. Len(rom_path) :
                            /\ rom_path[i] = "."
                            /\ \A j \in 1 .. i - 1 : rom_path[j] # ".")

\* ParseOptions.cpp:190-202
SaveGamePath(rom_path) == SaveGamePathAt(rom_path, RFind(rom_path, "."))

----------------------------------------------------------------------------
(* Specification of SaveGamePath: it is called once on any short path *)

\* longest path tried
MaxPathLen == 5

PathChars == {".", "s", "a", "v", "r"}

RomPaths == UNION {[1 .. n -> PathChars] : n \in 0 .. MaxPathLen}

InitPath ==
    /\ InitMachine({<<"DMG", "DMG", 43980>>}, {NoMbcCart})
    /\ cpu = PowerOnCpu
    /\ emu = PowerOnEmu
    /\ \E p \in RomPaths : opts = [NoOptions EXCEPT !.rom_path = p]
    /\ arm = ResetArm

CallSaveGamePath ==
    /\ opts.result = "none"
    /\ \E r \in {SaveGamePath(opts.rom_path)} :
           opts' = [opts EXCEPT !.result = r.result, !.save_path = r.save_path]
    /\ UNCHANGED <<mem, timer, bus, tcall, dcall, phase, ticks, cpu, emu, arm>>

NextPath == CallSaveGamePath

SpecPath == InitPath /\ [][NextPath]_vars

\* the indices of the dots of p
Dots(p) == {i \in 1 .. Len(p) : p[i] = "."}

\* the greatest element of a nonempty set of indices
Greatest(S) == CHOOSE i \in S : \A j \in S : j <= i

\* p ends with the four characters ".sav"
EndsInSav(p) == Len(p) >= 4 /\ \A k \in 1 .. 4 : p[Len(p) - 4 + k] = sav[k]

\* C30: SaveGamePath(p) fails if p has no '.' or if the text from its last
\* '.' to the end is exactly ".sav"; otherwise it returns p with everything
\* from the last '.' replaced by ".sav"; a returned path ends in ".sav" and
\* never equals p.
C30_SaveGamePath ==
    opts.result # "none"
       => LET p == opts.rom_path
              fails == \/ Dots(p) = {}
                       \/ /\ Len(p) - Greatest(Dots(p)) = 3
                          /\ EndsInSav(p)
          IN  /\ (opts.result # "ok") <=> fails
              /\ opts.result = "ok"
                    => /\ Len(opts.save_path) = Greatest(Dots(p)) + 3
                       /\ \A i \in 1 .. Greatest(Dots(p)) - 1 :
                              opts.save_path[i] = p[i]
                       /\ EndsInSav(opts.save_path)
                       /\ opts.save_path # p

\* "r.s.a" becomes "r.s.sav"
C30_Witness ==
    /\ opts.rom_path = <<"r", ".", "s", ".", "a">>
    /\ opts.result = "ok"
    /\ opts.save_path = <<"r", ".", "s", ".", "s", "a", "v">>

----------------------------------------------------------------------------
(* Further properties of the OAM DMA, of HaltedTick and of the loop *)

\* C36: on every Active cycle of an OAM DMA the byte stored into
\* OAM[bytes_read - 1] is the byte read from the source on the previous
\* cycle, in every LCD mode: the store is never replaced by 0xFF because of
\* STAT mode 2 or 3.
C36_DmaStoreUngated ==
    [][(phase = "tick" /\ mem.state_oam_dma = "Active")
          => /\ VecGet(mem'.oam, mem.bytes_read - 1) = mem.oam_transfer_byte
             /\ \A i \in 0 .. OamDmaLength - 1 :
                    i # mem.bytes_read - 1 => VecGet(mem'.oam, i) = VecGet(mem.oam, i)]_vars

\* the second byte of a transfer from VRAM stored into OAM during LCD mode 2
C36_Witness ==
    /\ phase = "cpu"
    /\ mem.state_oam_dma = "Active"
    /\ mem.bytes_read = 3
    /\ BitAnd(mem.stat, 3) = 2
    /\ VecGet(mem.oam, 1) = 165
    /\ mem.oam_transfer_addr = 32768

----------------------------------------------------------------------------
(* Specification of the halted CPU: in the first machine cycles the CPU    *)
(* enables and requests an interrupt and starts an OAM DMA; at any time it *)
(* executes HALT, spends cycles in HaltedTick and wakes up                 *)

\* machine cycles explored in the halted-CPU specification
MaxHaltTicks == 168

\* machine cycles spent in HaltedTick
MaxHaltedCycles == 3

\* IE, IF and the DMA-start register
HaltSetupWrites == {<<65535, 1>>, <<65295, 1>>, <<65350, 192>>}

HaltCpuSetup ==
    /\ CpuRuns
    /\ ticks < LcdWindow
    /\ \E w \in HaltSetupWrites : CpuWrite(w[1], w[2])

HaltCpuIdle == CpuRuns /\ CpuInternal

HaltTick == \E step \in (IF ticks < LcdWindow THEN {0, 1} ELSE {0}) : HardwareTick(step)

\* a machine cycle of the halted CPU: HaltedTick(4)
HaltedCycle ==
    /\ phase = "cpu"
    /\ cpu.cpu_mode = "Halted"
    /\ cpu.halted_ticks < MaxHaltedCycles
    /\ \E step \in (IF ticks < LcdWindow THEN {0, 1} ELSE {0}) :
         \E r \in {HaltedTick(mem, timer, step)} :
           /\ mem' = r.mem
           /\ timer' = r.timer
           /\ tcall' = r.call
    /\ cpu' = [cpu EXCEPT !.halted_ticks = @ + 1,
                          !.dma_stalls = IF mem.state_oam_dma # "Inactive"
                                         THEN @ + 1 ELSE @]
    /\ ticks' = ticks + 1
    /\ UNCHANGED <<bus, dcall, phase, emu, opts, arm>>

\* the halted CPU wakes when an enabled interrupt is requested
WakeUp ==
    /\ phase = "cpu"
    /\ cpu.cpu_mode = "Halted"
    /\ RequestedEnabledInterrupts(mem)
    /\ cpu' = [cpu EXCEPT !.cpu_mode = "Running", !.last = <<"Wake", 0>>]
    /\ UNCHANGED <<mem, timer, bus, tcall, dcall, phase, ticks, emu, opts, arm>>

NextHalt ==
    /\ ticks < MaxHaltTicks
    /\ (HaltCpuSetup \/ HaltCpuIdle \/ ModeHalt \/ HaltedCycle \/ WakeUp \/ HaltTick)

InitHalt == InitWith({<<"DMG", "DMG", 43980>>})

SpecHalt == InitHalt /\ [][NextHalt]_vars

\* the OAM DMA state of the memory
OamDmaState(m) ==
    <<m.state_oam_dma, m.oam_dma_start, m.oam_transfer_addr, m.oam_transfer_byte,
      m.bytes_read, m.dma_blocking_memory, m.oam>>

\* C37: a machine cycle spent in HaltedTick advances the timer and the LCD
\* but leaves the OAM DMA and HDMA state, the CPU's interrupt-enable state
\* and IF_written_this_cycle unchanged; an OAM DMA in progress when the CPU
\* halts makes no progress and keeps the bus blocked while only HaltedTick
\* cycles elapse, and completes only after its 162 HardwareTick cycles.
C37_HaltedTickFrame ==
    /\ [][(cpu.cpu_mode = "Halted" /\ ticks' = ticks + 1)
             => /\ OamDmaState(mem') = OamDmaState(mem)
                /\ mem'.io = mem.io
                /\ mem'.IF_written_this_cycle = mem.IF_written_this_cycle
                /\ cpu'.interrupt_master_enable = cpu.interrupt_master_enable
                /\ cpu'.cpu_mode = cpu.cpu_mode
                /\ mem'.divider = (mem.divider + 4) % 65536
                /\ dcall' = dcall]_vars
    /\ [](dcall.from # "None"
            => /\ mem.state_oam_dma = "Inactive" <=> dcall.calls = OamDmaLength + 2
               /\ dcall.calls \in 2 .. OamDmaLength + 1 => mem.dma_blocking_memory)

\* a transfer that ended after three cycles of it were spent halted
C37_Witness ==
    /\ mem.state_oam_dma = "Inactive"
    /\ dcall.from = "Inactive"
    /\ dcall.calls = OamDmaLength + 2
    /\ cpu.dma_stalls = 3
    /\ cpu.cpu_mode = "Running"
    /\ ticks >= OamDmaLength + 5

----------------------------------------------------------------------------
(* The emulator loop under the scheduling of the host: the loop body runs  *)
(* whenever PollEvents has returned                                        *)

InitLoopLive == InitWith({<<"DMG", "DMG", 43980>>})

SpecLoopLive == InitLoopLive /\ [][NextLoop]_vars /\ WF_vars(EmulatorLoop)

----------------------------------------------------------------------------
(* Specification of the window events: Pause, HideWindow and ShowWindow    *)
(* are delivered in any order; events keeps the events delivered           *)

\* events delivered
MaxWindowEvents == 4

Delivers(ev) ==
    /\ Len(emu.events) < MaxWindowEvents
    /\ emu' = [Callback(emu, ev) EXCEPT !.events = Append(@, ev)]
    /\ UNCHANGED <<mem, timer, bus, tcall, dcall, phase, ticks, cpu, opts, arm>>

WindowPause == Delivers("Pause")

WindowHide == Delivers("HideWindow")

WindowShow == Delivers("ShowWindow")

NextWindow == WindowPause \/ WindowHide \/ WindowShow

SpecWindow == Init /\ [][NextWindow]_vars

\* the loop state after the events evs, delivered from the start
RECURSIVE AfterEvents(_)
AfterEvents(evs) ==
    IF evs = <<>> THEN PowerOnEmu
    ELSE Callback(AfterEvents(SubSeq(evs, 1, Len(evs) - 1)), evs[Len(evs)])

\* the events from the k-th on are HideWindow and ShowWindow events only, the
\* first a HideWindow and the last a ShowWindow
HideShowSequenceFrom(evs, k) ==
    /\ evs[k] = "HideWindow"
    /\ evs[Len(evs)] = "ShowWindow"
    /\ \A i \in k .. Len(evs) : evs[i] \in {"HideWindow", "ShowWindow"}

\* C39: after any sequence of HideWindow and ShowWindow events with no Pause
\* event that ends with a ShowWindow, the pause flag equals its value before
\* the first HideWindow of the sequence.
C39_HideShowRestoresPause ==
    \A k \in 1 .. Len(emu.events) :
        HideShowSequenceFrom(emu.events, k)
           => emu.pause = AfterEvents(SubSeq(emu.events, 1, k - 1)).pause

----------------------------------------------------------------------------
(* Specification of the MBC5 RAM banks: the CPU enables the RAM, selects   *)
(* banks and accesses the RAM window                                       *)

\* machine cycles explored in the RAM bank specification
MaxRamTicks == 4

\* MBC5 carts with sixteen RAM banks, and with rumble and eight RAM banks
Mbc5BigCart == <<"MBC5", TRUE, 131072, FALSE, 8>>
Mbc5RumbleBigCart == <<"MBC5", TRUE, 65536, TRUE, 8>>

\* RAM enable, and RAM bank numbers below and above 8
RamControlWrites ==
    {<<0, 10>>, <<16384, 0>>, <<16384, 1>>, <<16384, 7>>, <<16384, 8>>,
     <<16384, 9>>, <<16384, 15>>}

RamWrites == {<<40960, 85>>, <<49151, 119>>}

RamCpuControl == \E w \in RamControlWrites : CpuWrite(w[1], w[2])

RamCpuWrite == \E w \in RamWrites : CpuWrite(w[1], w[2])

RamCpuRead == \E a \in {40960, 49151} : CpuRead(a)

RamTick == HardwareTick(0)

NextRam ==
    /\ ticks < MaxRamTicks
    /\ (RamCpuControl \/ RamCpuWrite \/ RamCpuRead \/ RamTick)

InitRam == InitCart({<<"CGB", "CGB", 7840>>}, {Mbc5BigCart, Mbc5RumbleBigCart})

SpecRam == InitRam /\ [][NextRam]_vars

\* the byte the RAM window shows at addr when bank b is selected
ThroughBank(m, b, addr) == ReadExternalRAM([m EXCEPT !.ram_bank_num = b], addr)

\* C40: for an MBC5 cart without rumble and with external RAM enabled the
\* sixteen RAM bank numbers select pairwise disjoint 8 KiB windows: a byte
\* written through bank b is read back through b and changes what no other
\* bank shows (a write through b >= 8 is not visible through b - 8); with
\* rumble the banks are told apart by bits 0-2 of the bank number only.
C40_Mbc5RamBanksDisjoint ==
    [][(/\ phase = "cpu"
        /\ bus'.op = "write"
        /\ bus'.addr \in 40960 .. 49151
        /\ mem.mbc_mode = "MBC5"
        /\ mem.ext_ram_enabled)
          => /\ ThroughBank(mem', mem.ram_bank_num, bus'.addr) = bus'.data
             /\ \A b \in 0 .. 15 :
                   IF mem.rumble_present /\ b % 8 = mem.ram_bank_num % 8
                   THEN ThroughBank(mem', b, bus'.addr) = bus'.data
                   ELSE b # mem.ram_bank_num
                          => ThroughBank(mem', b, bus'.addr)
                               = ThroughBank(mem, b, bus'.addr)]_vars

\* ---------------------------------------------------------------------
\* Audio sample queue (Audio.cpp)
\* ---------------------------------------------------------------------

\* The length of the sample counter's period, in audio ticks per frame
samples_per_frame == 17556

\* The two ticks of the frame, beside every 22nd, at which a sample is taken
extra_sample_first == 5863
extra_sample_second == 11715

\* Audio::QueueSample without the two extra samples a frame
QueueSample_Every22(a, left_sample, right_sample) ==
    IF a.sample_drop % 22 = 0
    THEN [a EXCEPT !.pushed = <<left_sample, right_sample>>,
                   !.buffer_bytes = IF a.counted >= 0 THEN @ + 2 ELSE @,
                   !.pairs = IF a.counted >= 0 THEN @ + 1 ELSE @]
    ELSE [a EXCEPT !.pushed = <<>>]

\* Audio::QueueSample: the left then the right sample are appended on every
\* 22nd tick of the frame and on two more
QueueSample(a, left_sample, right_sample) ==
    IF \/ a.sample_drop % 22 = 0
       \/ a.sample_drop = extra_sample_first
       \/ a.sample_drop = extra_sample_second
    THEN [a EXCEPT !.pushed = <<left_sample, right_sample>>,
                   !.buffer_bytes = IF a.counted >= 0 THEN @ + 2 ELSE @,
                   !.pairs = IF a.counted >= 0 THEN @ + 1 ELSE @]
    ELSE [a EXCEPT !.pushed = <<>>]

\* Audio::UpdatePowerOnState: the power state follows bit 7 of NR52
UpdatePowerOnState(a, sound_on) ==
    [a EXCEPT !.audio_on = BitAnd(sound_on, 128) # 0]

\* Audio::UpdateAudio: in double speed every other call returns at once;
\* otherwise the sample counter advances, the power state is refreshed and
\* one sample pair is offered to the queue: silence while the unit is off,
\* the mixed channel output (left, right) while it is on.
UpdateAudio(a, double_speed, sound_on, left, right) ==
    LET skip == IF double_speed = 1 THEN 1 - a.double_speed_skip
                ELSE a.double_speed_skip
    IN  IF double_speed = 1 /\ skip = 1
        THEN [a EXCEPT !.double_speed_skip = skip, !.pushed = <<>>]
        ELSE LET b == UpdatePowerOnState(
                          [a EXCEPT !.double_speed_skip = skip,
                                    !.sample_drop = (@ + 1) % samples_per_frame,
                                    !.counted = IF @ >= 0 THEN @ + 1 ELSE @],
                          sound_on)
             IN  IF ~b.audio_on THEN QueueSample(b, 0, 0)
                 ELSE QueueSample(b, left, right)

\* The sample pair the mixer produces in the runs while the unit is on
MixedSamples == {<<30, 45>>}

\* The sample-counter values at which a span of ticks is observed to start
SpanStarts == {21, extra_sample_first}

\* One call of UpdateAudio from the hardware tick
AudioTick ==
    /\ phase = "cpu"
    /\ mem.audio.counted < samples_per_frame
    /\ \E s \in MixedSamples :
          mem' = [mem EXCEPT !.audio = UpdateAudio(mem.audio, emu.double_speed,
                                                   VecGet(mem.io, 65318), s[1], s[2])]
    /\ UNCHANGED <<timer, bus, tcall, dcall, phase, ticks, cpu, emu, opts, arm>>

\* The program switches the audio unit on or off through NR52, at any point
\* of the observed span, and the hardware tick that follows the write calls
\* UpdateAudio
AudioPowerWrite ==
    /\ phase = "cpu"
    /\ mem.audio.counted >= 0
    /\ mem.audio.counted < samples_per_frame
    /\ \E data \in {0, 128}, s \in MixedSamples :
          /\ VecGet(mem.io, 65318) # data
          /\ \E w \in {WriteMem8(mem, 65318, data)} :
                mem' = [w EXCEPT !.audio = UpdateAudio(w.audio, emu.double_speed,
                                                       VecGet(w.io, 65318), s[1], s[2])]
    /\ UNCHANGED <<timer, bus, tcall, dcall, phase, ticks, cpu, emu, opts, arm>>

\* The CPU speed changes between single and double, at any point of the
\* observed span
AudioSpeedSwitch ==
    /\ phase = "cpu"
    /\ mem.game_mode = "CGB"
    /\ mem.audio.counted >= 0
    /\ mem.audio.counted < samples_per_frame
    /\ emu' = [emu EXCEPT !.double_speed = 1 - @]
    /\ UNCHANGED <<mem, timer, bus, tcall, dcall, phase, ticks, cpu, opts, arm>>

\* A span of ticks starts to be observed
AudioSpanStart ==
    /\ phase = "cpu"
    /\ mem.audio.counted = -1
    /\ mem.audio.sample_drop \in SpanStarts
    /\ mem' = [mem EXCEPT !.audio.counted = 0, !.audio.pairs = 0,
                          !.audio.buffer_bytes = 0]
    /\ UNCHANGED <<timer, bus, tcall, dcall, phase, ticks, cpu, emu, opts, arm>>

NextAudio == AudioTick \/ AudioPowerWrite \/ AudioSpeedSwitch \/ AudioSpanStart

InitAudio == InitWith({<<"CGB", "CGB", 7840>>})

SpecAudio == InitAudio /\ [][NextAudio]_vars

\* C35: a span of 17556 consecutive non-skipped audio ticks appends exactly
\* 800 sample pairs (1600 bytes) to the buffer, whether the unit is on or
\* off and wherever in the frame the span starts; a pair is appended exactly
\* on the ticks whose counter is a multiple of 22, 5863 or 11715, left
\* sample first, and a pair appended while the unit is off is (0, 0).
C35_SamplesPerFrame ==
    /\ mem.audio.counted = samples_per_frame
          => mem.audio.pairs = 800 /\ mem.audio.buffer_bytes = 1600
    /\ mem.audio.counted >= 0 => mem.audio.buffer_bytes = 2 * mem.audio.pairs
    /\ mem.audio.pushed # <<>>
          => /\ \/ mem.audio.sample_drop % 22 = 0
                \/ mem.audio.sample_drop \in {5863, 11715}
             /\ ~mem.audio.audio_on => mem.audio.pushed = <<0, 0>>
             /\ mem.audio.audio_on => mem.audio.pushed \in MixedSamples

C35_Witness ==
    /\ mem.audio.counted = samples_per_frame
    /\ mem.audio.pairs = 800
    /\ mem.audio.sample_drop = extra_sample_first
    /\ ~mem.audio.audio_on
    /\ emu.double_speed = 1

\* ---------------------------------------------------------------------
\* ARM operations of the 32-bit core (gba/cpu/ArmOps.cpp)
\* ---------------------------------------------------------------------

\* 32-bit unsigned arithmetic on <<high half, low half>> pairs
Word(n) == <<n \div 65536, n % 65536>>

Add32(a, b) ==
    LET lo == a[2] + b[2]
    IN  <<(a[1] + b[1] + lo \div 65536) % 65536, lo % 65536>>

Not32(a) == <<65535 - a[1], 65535 - a[2]>>

Neg32(a) == Add32(Not32(a), <<0, 1>>)

And32(a, b) == <<BitAnd(a[1], b[1]), BitAnd(a[2], b[2])>>

Or32(a, b) == <<BitOr(a[1], b[1]), BitOr(a[2], b[2])>>

\* a * k modulo 2^32, for k below 2^15
Mul32(a, k) ==
    LET lo == a[2] * k
    IN  <<(a[1] * k + lo \div 65536) % 65536, lo % 65536>>

RECURSIVE Exp2(_)
Exp2(n) == IF n = 0 THEN 1 ELSE 2 * Exp2(n - 1)

\* a << n modulo 2^32, for n in 0 .. 31
Shl32(a, n) ==
    IF n >= 16 THEN <<(a[2] * Exp2(n - 16)) % 65536, 0>>
    ELSE <<(((a[1] * Exp2(n)) % 65536) + ((a[2] * Exp2(n)) \div 65536)) % 65536,
           (a[2] * Exp2(n)) % 65536>>

\* a rotated right by n, for n in 0 .. 31
RotateRight32(a, n) ==
    LET h == IF n >= 16 THEN a[2] ELSE a[1]
        l == IF n >= 16 THEN a[1] ELSE a[2]
        k == n % 16
    IN  <<(h \div Exp2(k)) + (l % Exp2(k)) * Exp2(16 - k),
          (l \div Exp2(k)) + (h % Exp2(k)) * Exp2(16 - k)>>

\* The register numbers of the stack pointer, link register and PC
sp == 13
lr == 14
pc == 15

\* CPSR masks: the mode field, the Thumb bit
cpu_mode == 31
thumb_mode == 32

\* The encodings of the seven modes in the mode field
ModeBits ==
    [User |-> 16, Fiq |-> 17, Irq |-> 18, Svc |-> 19, Abort |-> 23,
     Undef |-> 27, System |-> 31]

CpuModes == DOMAIN ModeBits

ValidCpuMode(value) == \E md \in CpuModes : ModeBits[md] = value[2] % 32

ModeOf(psr) == CHOOSE md \in CpuModes : ModeBits[md] = psr[2] % 32

CurrentCpuMode(c) == ModeOf(c.cpsr)

\* Cpu::HasSpsr: every mode but User and System has a saved status register
HasSpsr(c) == CurrentCpuMode(c) \notin {"User", "System"}

\* System mode shares the User registers
BankOf(md) == IF md = "System" THEN "User" ELSE md

\* Cpu::CpuModeSwitch: r13 and r14 (and r8-r12 to or from FIQ) of the old
\* mode are banked, those of the new mode made current, and the mode field
\* of the CPSR becomes the new mode
CpuModeSwitch(c, new) ==
    LET old == CurrentCpuMode(c)
        saved == [b \in DOMAIN c.bank |-> [r \in 8 .. 14 |->
                    IF r >= sp
                    THEN IF b = BankOf(old) THEN c.regs[r] ELSE c.bank[b][r]
                    ELSE IF b = (IF old = "Fiq" THEN "Fiq" ELSE "User")
                         THEN c.regs[r] ELSE c.bank[b][r]]]
    IN  IF old = new THEN c
        ELSE [c EXCEPT
                !.bank = saved,
                !.regs = [r \in 0 .. 15 |->
                            IF r \in {sp, lr} THEN saved[BankOf(new)][r]
                            ELSE IF r \in 8 .. 12
                            THEN saved[IF new = "Fiq" THEN "Fiq" ELSE "User"][r]
                            ELSE c.regs[r]],
                !.cpsr = <<c.cpsr[1],
                           (c.cpsr[2] - (c.cpsr[2] % 32)) + ModeBits[new]>>]

\* Memory::AccessTime<T>: the cycles one access of the given width (in
\* bytes) takes: on-board work RAM (0x02......) has a 16-bit bus and two
\* wait states, everything else used here answers in one cycle
AccessTime(addr, width) ==
    IF addr[1] \div 256 = 2 THEN (IF width = 4 THEN 6 ELSE 3) ELSE 1

\* Memory::ReadMem<u32>: the word at the word-aligned address
ReadMem32(c, addr) == VecGet(c.mem, And32(addr, Not32(<<0, 3>>)))

\* Memory::WriteMem<u32>
WriteMem32(c, addr, data) ==
    [c EXCEPT !.mem = VecSet(@, And32(addr, Not32(<<0, 3>>)), data)]

\* One memory access goes on the bus: its address is recorded and its
\* access time added to the time the operation spent on the bus
Accessed(c, addr, width) ==
    [c EXCEPT !.accesses = Append(@, addr),
              !.access_cycles = @ + AccessTime(addr, width)]

\* Cpu::InternalCycle and Cpu::LoadInternalCycle: the hardware advances by
\* the given number of internal cycles
InternalCycle(c, cycles) == [c EXCEPT !.internal_cycles = @ + cycles]

\* Cpu::Arm_BranchWritePC: PC becomes the word-aligned target and the
\* pipeline is refilled with two fetches from it, whose time is returned
Arm_BranchWritePC(c, addr) ==
    LET target == And32(addr, Not32(<<0, 3>>))
        refill == 2 * AccessTime(target, 4)
    IN  [c EXCEPT !.regs[pc] = target, !.pc_written = TRUE,
                  !.pc_write_cycles = @ + refill, !.returned = refill]

\* Cpu::ReturnFromException: the CPSR is restored from the SPSR of the
\* current mode, the registers of the restored mode become current, and
\* the pipeline is refilled from the target in the restored state
ReturnFromException(c, addr) ==
    LET saved == c.spsr[CurrentCpuMode(c)]
        d == [CpuModeSwitch(c, ModeOf(saved)) EXCEPT !.cpsr = saved]
        target == IF BitAnd(saved[2], thumb_mode) # 0
                  THEN And32(addr, Not32(<<0, 1>>))
                  ELSE And32(addr, Not32(<<0, 3>>))
        refill == 2 * AccessTime(target, IF BitAnd(saved[2], thumb_mode) # 0 THEN 2 ELSE 4)
    IN  [d EXCEPT !.regs[pc] = target, !.pc_written = TRUE,
                  !.pc_write_cycles = @ + refill, !.returned = refill]

\* Cpu::AluWritePC without the return from exception
AluWritePC_AlwaysBranch(c, set_flags, result) == Arm_BranchWritePC(c, result)

\* Cpu::AluWritePC: a data-processing result written to PC
AluWritePC(c, set_flags, result) ==
    IF set_flags /\ HasSpsr(c) THEN ReturnFromException(c, result)
    ELSE Arm_BranchWritePC(c, result)

\* ArmExpandImmediate: the low 8 bits rotated right by twice the high 4
ArmExpandImmediate(imm) == RotateRight32(<<0, imm % 256>>, 2 * (imm \div 256))

\* add_op and sub_op: x + y + carry and x + ~y + carry, with the carry out
\* of bit 31 and the signed overflow
ArithOp(op, x, y0, carry_in) ==
    LET y == IF op = "sub" THEN Not32(y0) ELSE y0
        lo == x[2] + y[2] + carry_in
        hi == x[1] + y[1] + lo \div 65536
        value == <<hi % 65536, lo % 65536>>
    IN  [value |-> value, carry |-> hi \div 65536,
         overflow |-> IF (x[1] >= 32768) = (y[1] >= 32768)
                         /\ (value[1] >= 32768) # (x[1] >= 32768)
                      THEN 1 ELSE 0]

\* The flag nibble (N, Z, C, V) of a status register becomes the given one
WithFlags(psr, n, z, cf, v) ==
    <<(psr[1] % 4096) + 4096 * (8 * n + 4 * z + 2 * cf + v), psr[2]>>

\* Cpu::ConditionalSetAllFlags
ConditionalSetAllFlags(c, set_flags, result) ==
    IF set_flags
    THEN [c EXCEPT !.cpsr = WithFlags(@, result.value[1] \div 32768,
                                      IF result.value = <<0, 0>> THEN 1 ELSE 0,
                                      result.carry, result.overflow)]
    ELSE c

\* Cpu::ConditionalSetSignZeroFlags: N and Z from the value, C and V kept
ConditionalSetSignZeroFlags(c, set_flags, value) ==
    IF set_flags
    THEN [c EXCEPT !.cpsr = WithFlags(@, value[1] \div 32768,
                                      IF value = <<0, 0>> THEN 1 ELSE 0,
                                      (@[1] \div 8192) % 2, (@[1] \div 4096) % 2)]
    ELSE c

\* Cpu::Arm_ArithImm
Arm_ArithImm(c, set_flags, n, d, imm, op, carry_in) ==
    LET result == ArithOp(op, c.regs[n], ArmExpandImmediate(imm), carry_in)
    IN  IF d = pc THEN AluWritePC(c, set_flags, result.value)
        ELSE [ConditionalSetAllFlags([c EXCEPT !.regs[d] = result.value],
                                     set_flags, result)
                EXCEPT !.returned = 0]

\* Cpu::Arm_MovReg
Arm_MovReg(c, set_flags, d, m) ==
    IF d = pc THEN AluWritePC(c, set_flags, c.regs[m])
    ELSE [ConditionalSetSignZeroFlags([c EXCEPT !.regs[d] = c.regs[m]],
                                      set_flags, c.regs[m])
            EXCEPT !.returned = 0]

\* The machine of the runs in User mode: r0 and r13 point into on-chip
\* work RAM, r1 into on-board work RAM, r15 and the link registers into
\* ROM; every mode has its own stack pointer, link register and saved
\* status register, and the memory around the three pointers is filled
ArmMemory ==
    [a \in {<<768, 256 + 4 * i>> : i \in 0 .. 39}
           \cup {<<512, 256 + 4 * i>> : i \in 0 .. 11} |->
        <<2048 + (a[2] % 7), (3 * a[2] + a[1] + 1) % 65536>>]

ArmUser ==
    [ResetArm EXCEPT
       !.regs = [r \in 0 .. 15 |->
                   CASE r = 0 -> <<768, 288>>
                     [] r = 1 -> <<512, 272>>
                     [] r = 3 -> <<65535, 65535>>
                     [] r = 4 -> <<1, 9029>>
                     [] r = sp -> <<768, 320>>
                     [] r = lr -> <<2048, 293>>
                     [] r = pc -> <<2048, 8>>
                     [] OTHER -> <<0, 17 * r>>],
       !.cpsr = <<24576, 16>>,
       !.spsr = [md \in DOMAIN ResetArm.spsr |->
                   CASE md = "Irq" -> <<32768, 16>>
                     [] md = "Svc" -> <<12288, 48>>
                     [] md = "Fiq" -> <<16384, 146>>
                     [] md = "Abort" -> <<4096, 31>>
                     [] OTHER -> <<0, 19>>],
       !.bank = [md \in DOMAIN ResetArm.bank |-> [r \in 8 .. 14 |->
                   <<IF r = sp THEN 768 ELSE IF r = lr THEN 2048 ELSE 0,
                     256 + 8 * (ModeBits[md] - 16) + 4 * (r - 8)>>]],
       !.mem = ArmMemory]

\* The flag nibbles of the CPSR in the runs
ArmFlags == {0, 6, 15}

ArmStates ==
    {[CpuModeSwitch(ArmUser, md) EXCEPT !.cpsr[1] = 4096 * fl] :
        md \in CpuModes, fl \in ArmFlags}

InitArm ==
    /\ InitMachine({<<"CGB", "CGB", 7840>>}, {NoMbcCart})
    /\ cpu = PowerOnCpu
    /\ emu = PowerOnEmu
    /\ opts = NoOptions
    /\ arm \in ArmStates

\* An operation starts: what the previous one spent is forgotten
Begin(c) ==
    [c EXCEPT !.access_cycles = 0, !.internal_cycles = 0, !.pc_write_cycles = 0,
              !.accesses = <<>>, !.returned = 0, !.pc_written = FALSE]

\* The operation that ran, its operands and the mode it ran in are recorded
Ran(c, d, name, args) ==
    [d EXCEPT !.last = [op |-> name, args |-> args, mode |-> CurrentCpuMode(c)]]

\* ADD, ADC, SUB with an immediate operand (Arm_AddImm, Arm_AdcImm, Arm_SubImm)
ExecArithImm ==
    /\ arm.last.op = "none"
    /\ \E set_flags \in BOOLEAN, n \in {0, lr, pc}, d \in {4, pc},
          imm \in {0, 1, 255, 260}, kind \in {"add", "adc", "sub"} :
          LET aop == IF kind = "sub" THEN "sub" ELSE "add"
              carry_in == CASE kind = "add" -> 0
                            [] kind = "sub" -> 1
                            [] OTHER -> (arm.cpsr[1] \div 8192) % 2
          IN  arm' = Ran(arm, Arm_ArithImm(Begin(arm), set_flags, n, d, imm, aop, carry_in),
                         "ArithImm",
                         [set_flags |-> set_flags, n |-> n, d |-> d, imm |-> imm,
                          aop |-> aop, carry_in |-> carry_in])
    /\ UNCHANGED <<mem, timer, bus, tcall, dcall, phase, ticks, cpu, emu, opts>>

\* MOV with a register operand
ExecMovReg ==
    /\ arm.last.op = "none"
    /\ \E set_flags \in BOOLEAN, d \in {4, pc}, m \in {0, 3, 5, lr} :
          arm' = Ran(arm, Arm_MovReg(Begin(arm), set_flags, d, m), "MovReg",
                     [set_flags |-> set_flags, d |-> d, m |-> m])
    /\ UNCHANGED <<mem, timer, bus, tcall, dcall, phase, ticks, cpu, emu, opts>>

\* The result the recorded data-processing operation computes from the
\* registers of the state c
AluResult(c, l) ==
    IF l.op = "ArithImm"
    THEN ArithOp(l.args.aop, c.regs[l.args.n], ArmExpandImmediate(l.args.imm),
                 l.args.carry_in).value
    ELSE c.regs[l.args.m]

\* C31: a data-processing or move operation whose destination is PC returns
\* from the exception when S is set and the mode has an SPSR (the CPSR
\* becomes that SPSR); otherwise it branches to the result and leaves the
\* CPSR as it was; the flags are never computed from the result.
C31_AluWritePC ==
    [][(arm.last.op = "none" /\ arm'.last.op \in {"ArithImm", "MovReg"}
          /\ arm'.last.args.d = pc)
         => LET result == AluResult(arm, arm'.last)
                md == CurrentCpuMode(arm)
            IN  IF arm'.last.args.set_flags /\ md \notin {"User", "System"}
                THEN /\ arm'.cpsr = arm.spsr[md]
                     /\ arm'.regs[pc] \in {And32(result, Not32(<<0, 1>>)),
                                           And32(result, Not32(<<0, 3>>))}
                ELSE /\ arm'.cpsr = arm.cpsr
                     /\ arm'.regs[pc] = And32(result, Not32(<<0, 3>>))
                     /\ \A r \in 0 .. 14 : arm'.regs[r] = arm.regs[r]]_vars

C31_Witness ==
    /\ arm.last.op = "ArithImm"
    /\ arm.last.args.d = pc /\ arm.last.args.set_flags
    /\ arm.last.args.aop = "sub" /\ arm.last.args.n = lr
    /\ arm.last.mode = "Irq"
    /\ CurrentCpuMode(arm) = "User"
    /\ arm.cpsr = <<32768, 16>>

\* The byte mask Arm_WriteStatusReg builds from the 4-bit field mask: bit 0
\* selects the control byte, bit 3 the flag nibble
PsrMask(bits) ==
    Mul32(Or32(<<0, BitAnd(bits, 1)>>, Shl32(<<0, BitAnd(bits, 8)>>, 25)), 255)

\* Cpu::Arm_WriteStatusReg with the Thumb bit left writable
Arm_WriteStatusReg_ThumbWritable(c, write_spsr, field_mask, value) ==
    LET mask == IF CurrentCpuMode(c) = "User" THEN BitAnd(field_mask, 14)
                ELSE field_mask
        psr_mask == PsrMask(mask)
    IN  IF write_spsr
        THEN [c EXCEPT !.spsr[CurrentCpuMode(c)] =
                           Or32(And32(value, psr_mask), And32(@, Not32(psr_mask))),
                       !.returned = 0]
        ELSE LET d == IF mask % 2 = 1 THEN CpuModeSwitch(c, ModeOf(value)) ELSE c
             IN  [d EXCEPT !.cpsr = Or32(And32(value, psr_mask),
                                         And32(d.cpsr, Not32(psr_mask))),
                           !.returned = 0]

\* Cpu::Arm_WriteStatusReg (MSR): in User mode the control field is dropped
\* from the mask; a write to the SPSR replaces the selected bytes; a write
\* to the CPSR switches mode when the control field is written and then
\* replaces the selected bytes except the Thumb bit
Arm_WriteStatusReg(c, write_spsr, field_mask, value) ==
    LET mask == IF CurrentCpuMode(c) = "User" THEN BitAnd(field_mask, 14)
                ELSE field_mask
        write_control_field == mask % 2 = 1
        psr_mask == PsrMask(mask)
    IN  IF write_spsr
        THEN [c EXCEPT !.spsr[CurrentCpuMode(c)] =
                           Or32(And32(value, psr_mask), And32(@, Not32(psr_mask))),
                       !.returned = 0]
        ELSE LET d == IF write_control_field
                      THEN CpuModeSwitch(c, ModeOf(And32(value, <<0, cpu_mode>>)))
                      ELSE c
                 cpsr_mask == And32(psr_mask, Not32(<<0, thumb_mode>>))
             IN  [d EXCEPT !.cpsr = Or32(And32(value, cpsr_mask),
                                         And32(d.cpsr, Not32(cpsr_mask))),
                           !.returned = 0]

\* The values written to the status registers in the runs
PsrValues == {<<65535, 65535>>, <<0, 16>>, <<42405, 23090>>, <<36864, 209>>}

\* MSR, within the assertions of Arm_WriteStatusReg: the mask left after the
\* User-mode adjustment is not zero, the SPSR is written only in a mode
\* that has one, and a control field written to the CPSR holds a valid mode
ExecWriteStatusReg ==
    /\ arm.last.op = "none"
    /\ \E write_spsr \in BOOLEAN, field \in {1, 6, 8, 9, 15}, value \in PsrValues :
          /\ CurrentCpuMode(arm) = "User" => BitAnd(field, 14) # 0
          /\ write_spsr => HasSpsr(arm)
          /\ (~write_spsr /\ field % 2 = 1 /\ CurrentCpuMode(arm) # "User")
                => ValidCpuMode(value)
          /\ arm' = Ran(arm, Arm_WriteStatusReg(Begin(arm), write_spsr, field, value),
                        "WriteStatusReg",
                        [write_spsr |-> write_spsr, mask |-> field, value |-> value])
    /\ UNCHANGED <<mem, timer, bus, tcall, dcall, phase, ticks, cpu, emu, opts>>

\* C34: MSR to the CPSR never changes the Thumb bit nor bits 8-27; in User
\* mode it changes neither the control byte nor the mode (no register is
\* rebanked); nothing but the CPSR changes, and in it only the flag nibble
\* and, in a privileged mode, the control byte without the Thumb bit.
C34_MsrCpsr ==
    [][(arm.last.op = "none" /\ arm'.last.op = "WriteStatusReg"
          /\ ~arm'.last.args.write_spsr)
         => /\ BitAnd(arm'.cpsr[2], thumb_mode) = BitAnd(arm.cpsr[2], thumb_mode)
            /\ arm'.cpsr[1] % 4096 = arm.cpsr[1] % 4096
            /\ arm'.cpsr[2] \div 256 = arm.cpsr[2] \div 256
            /\ CurrentCpuMode(arm) = "User"
                  => /\ arm'.cpsr[2] = arm.cpsr[2]
                     /\ arm'.regs = arm.regs /\ arm'.bank = arm.bank
            /\ arm'.spsr = arm.spsr
            /\ \A r \in (0 .. 7) \cup {pc} : arm'.regs[r] = arm.regs[r]
            /\ arm'.mem = arm.mem]_vars

C34_Witness ==
    /\ arm.last.op = "WriteStatusReg"
    /\ ~arm.last.args.write_spsr
    /\ arm.last.args.mask = 9
    /\ arm.last.args.value = <<42405, 23090>>
    /\ arm.last.mode = "Svc"
    /\ CurrentCpuMode(arm) = "Irq"
    /\ arm.cpsr = <<40960, 18>>

\* MultiplyCycles: the multiplier ends early when the upper bytes of the
\* operand are all zeros or all ones
MultiplyCycles(value) ==
    CASE value[1] \in {0, 65535} /\ value[2] \div 256 = value[1] % 256 -> 1
      [] value[1] \in {0, 65535} -> 2
      [] value[1] \div 256 \in {0, 255} -> 3
      [] OTHER -> 4

\* a * b modulo 2^32
MulWord(a, b) ==
    Add32(Add32(Mul32(a, b[2] % 256), Shl32(Mul32(a, b[2] \div 256), 8)),
          Add32(Shl32(Mul32(a, b[1] % 256), 16), Shl32(Mul32(a, b[1] \div 256), 24)))

\* Cpu::Arm_MultiplyReg: MUL (a is -1) and MLA
Arm_MultiplyReg(c, set_flags, d, a, m, n) ==
    LET cycles == MultiplyCycles(c.regs[m]) + (IF a # -1 THEN 1 ELSE 0)
        product == MulWord(c.regs[n], c.regs[m])
        result == IF a # -1 THEN Add32(product, c.regs[a]) ELSE product
        e == [c EXCEPT !.regs[d] = result]
        f == IF set_flags
             THEN [e EXCEPT !.cpsr = WithFlags(@, result[1] \div 32768,
                                               IF result = <<0, 0>> THEN 1 ELSE 0,
                                               0, (@[1] \div 4096) % 2)]
             ELSE e
    IN  [InternalCycle(f, cycles) EXCEPT !.returned = cycles]

\* Memory::ReadMem<u8>: the addressed byte of the word
ReadMemByte(c, addr) ==
    LET w == ReadMem32(c, addr)
        h == IF addr[2] % 4 >= 2 THEN w[1] ELSE w[2]
    IN  <<0, IF addr[2] % 2 = 1 THEN h \div 256 ELSE h % 256>>

\* Memory::WriteMem<u8>: the addressed byte of the word is replaced
WriteMemByte(c, addr, data) ==
    LET w == ReadMem32(c, addr)
        b == data[2] % 256
        put(h) == IF addr[2] % 2 = 1 THEN 256 * b + (h % 256)
                  ELSE 256 * (h \div 256) + b
    IN  WriteMem32(c, addr, IF addr[2] % 4 >= 2 THEN <<put(w[1]), w[2]>>
                            ELSE <<w[1], put(w[2])>>)

\* Cpu::Arm_SwpReg: the word or byte at Rn is read into Rt and replaced by
\* Rt2; both accesses and one internal cycle are charged
Arm_SwpReg(c, byte, n, t, t2) ==
    LET addr == c.regs[n]
        width == IF byte THEN 1 ELSE 4
        data == IF byte THEN ReadMemByte(c, addr)
                ELSE RotateRight32(ReadMem32(c, addr), (addr[2] % 4) * 8)
        w == IF byte THEN WriteMemByte(c, addr, c.regs[t2])
             ELSE WriteMem32(c, addr, c.regs[t2])
        cycles == 1 + AccessTime(addr, width) * 2
        e == Accessed(Accessed(w, addr, width), addr, width)
    IN  [InternalCycle([e EXCEPT !.regs[t] = data], 1) EXCEPT !.returned = cycles]

\* The loop of Arm_Ldm over r0-r14: every listed register is loaded from
\* the current address, the access time is added and the address advances
RECURSIVE LdmLoop(_, _, _)
LdmLoop(st, rlist, i) ==
    IF i = 15 THEN st
    ELSE LdmLoop(IF i \in rlist
                 THEN [c |-> Accessed([st.c EXCEPT !.regs[i] = ReadMem32(st.c, st.addr)],
                                      st.addr, 4),
                       addr |-> Add32(st.addr, <<0, 4>>),
                       cycles |-> st.cycles + AccessTime(st.addr, 4)]
                 ELSE st,
                 rlist, i + 1)

\* Cpu::Arm_Ldm with the base written back even when it is in the list
Arm_Ldm_AlwaysWriteback(c, pre_indexed, increment, exception_return, writeback, n, rlist) ==
    LET offset == IF increment THEN Word(4 * Cardinality(rlist))
                  ELSE Neg32(Word(4 * Cardinality(rlist)))
        base == IF increment THEN c.regs[n] ELSE Add32(c.regs[n], offset)
        pre == IF increment THEN pre_indexed ELSE ~pre_indexed
        first == IF pre THEN Add32(base, <<0, 4>>) ELSE base
        load_user_regs == exception_return /\ pc \notin rlist /\ HasSpsr(c)
        current_cpu_mode == CurrentCpuMode(c)
        u == IF load_user_regs THEN CpuModeSwitch(c, "User") ELSE c
        st == LdmLoop([c |-> u, addr |-> first, cycles |-> 1], rlist, 0)
        back == IF load_user_regs THEN CpuModeSwitch(st.c, current_cpu_mode) ELSE st.c
        wb == IF writeback
              THEN [back EXCEPT !.regs[n] = Add32(@, offset)] ELSE back
        i1 == InternalCycle(wb, 1)
    IN  IF pc \in rlist
        THEN LET e == AluWritePC(Accessed(i1, st.addr, 4), exception_return,
                                 ReadMem32(i1, st.addr))
             IN  [e EXCEPT !.returned = st.cycles + e.returned]
        ELSE [i1 EXCEPT !.returned = st.cycles]

\* Cpu::Arm_Ldm: rlist is the set of the listed registers. With the S bit
\* and no PC in the list, in a mode that has an SPSR, the User registers
\* are loaded. The base is written back only when it is not in the list.
\* A listed PC is read after the loop and written through AluWritePC.
Arm_Ldm(c, pre_indexed, increment, exception_return, writeback, n, rlist) ==
    LET offset == IF increment THEN Word(4 * Cardinality(rlist))
                  ELSE Neg32(Word(4 * Cardinality(rlist)))
        base == IF increment THEN c.regs[n] ELSE Add32(c.regs[n], offset)
        pre == IF increment THEN pre_indexed ELSE ~pre_indexed
        first == IF pre THEN Add32(base, <<0, 4>>) ELSE base
        load_user_regs == exception_return /\ pc \notin rlist /\ HasSpsr(c)
        current_cpu_mode == CurrentCpuMode(c)
        u == IF load_user_regs THEN CpuModeSwitch(c, "User") ELSE c
        st == LdmLoop([c |-> u, addr |-> first, cycles |-> 1], rlist, 0)
        back == IF load_user_regs THEN CpuModeSwitch(st.c, current_cpu_mode) ELSE st.c
        wb == IF writeback /\ n \notin rlist
              THEN [back EXCEPT !.regs[n] = Add32(@, offset)] ELSE back
        i1 == InternalCycle(wb, 1)
    IN  IF pc \in rlist
        THEN LET e == AluWritePC(Accessed(i1, st.addr, 4), exception_return,
                                 ReadMem32(i1, st.addr))
             IN  [e EXCEPT !.returned = st.cycles + e.returned]
        ELSE [i1 EXCEPT !.returned = st.cycles]

\* MUL and MLA, within the assertions of Arm_MultiplyReg
ExecMultiplyReg ==
    /\ arm.last.op = "none"
    /\ \E set_flags \in BOOLEAN, d \in {5, 6}, a \in {-1, 2}, m \in {2, 3, 4, lr},
          n \in {0, 4} :
          arm' = Ran(arm, Arm_MultiplyReg(Begin(arm), set_flags, d, a, m, n),
                     "MultiplyReg",
                     [set_flags |-> set_flags, d |-> d, a |-> a, m |-> m, n |-> n])
    /\ UNCHANGED <<mem, timer, bus, tcall, dcall, phase, ticks, cpu, emu, opts>>

\* SWP and SWPB, within the assertion of Arm_SwpReg
ExecSwpReg ==
    /\ arm.last.op = "none"
    /\ \E byte \in BOOLEAN, n \in {0, 1, sp}, t \in {2, 5}, t2 \in {2, 4} :
          arm' = Ran(arm, Arm_SwpReg(Begin(arm), byte, n, t, t2), "SwpReg",
                     [byte |-> byte, n |-> n, t |-> t, t2 |-> t2])
    /\ UNCHANGED <<mem, timer, bus, tcall, dcall, phase, ticks, cpu, emu, opts>>

\* The register lists of the block loads in the runs
RegLists ==
    {{2}, {0, 2, 5}, {2, sp, lr}, {1, 4, pc}, {0, 1, 2, 3, pc}, {8, sp}, {sp, pc}}

\* LDM in its four addressing modes, within the assertion of Arm_Ldm; a
\* transfer of the User registers (S bit, no PC, a mode with an SPSR) is
\* run without writeback, which such a transfer does not allow
ExecLdm ==
    /\ arm.last.op = "none"
    /\ \E pre_indexed \in BOOLEAN, increment \in BOOLEAN, exception_return \in BOOLEAN,
          writeback \in BOOLEAN, n \in {0, 1, sp}, rlist \in RegLists :
          /\ ~(writeback /\ exception_return /\ pc \notin rlist /\ HasSpsr(arm))
          /\ arm' = Ran(arm, Arm_Ldm(Begin(arm), pre_indexed, increment,
                                     exception_return, writeback, n, rlist),
                        "Ldm",
                        [pre_indexed |-> pre_indexed, increment |-> increment,
                         exception_return |-> exception_return,
                         writeback |-> writeback,
                         n |-> n, rlist |-> rlist])
    /\ UNCHANGED <<mem, timer, bus, tcall, dcall, phase, ticks, cpu, emu, opts>>

NextArm ==
    \/ ExecArithImm \/ ExecMovReg \/ ExecWriteStatusReg
    \/ ExecMultiplyReg \/ ExecSwpReg \/ ExecLdm

SpecArm == InitArm /\ [][NextArm]_vars

\* C32: the cycle count an operation returns is the time of every memory
\* access it made, plus the internal cycles it charged, plus the cycles of
\* its PC write; no access is left out.
C32_CyclesCharged ==
    arm.last.op # "none"
       => arm.returned = arm.access_cycles + arm.internal_cycles + arm.pc_write_cycles

\* The register r as the mode md sees it in the state c
RegOfMode(c, md, r) ==
    LET group(x) == IF r \in {sp, lr} THEN BankOf(x)
                    ELSE IF x = "Fiq" THEN "Fiq" ELSE "User"
    IN  IF r \in 8 .. 14 /\ group(md) # group(CurrentCpuMode(c))
        THEN c.bank[group(md)][r]
        ELSE c.regs[r]

\* The block load recorded in l loads the User registers instead of those
\* of the mode it runs in
LoadsUserRegs(l) ==
    /\ l.args.exception_return
    /\ pc \notin l.args.rlist
    /\ l.mode \notin {"User", "System"}

\* The lowest address a block load from the state c reads: Rn (increment
\* after), Rn + 4 (increment before), Rn - 4k + 4 (decrement after) or
\* Rn - 4k (decrement before), k being the number of listed registers
LdmFirst(c, l) ==
    LET k == Word(4 * Cardinality(l.args.rlist))
        rn == c.regs[l.args.n]
    IN  CASE l.args.increment /\ ~l.args.pre_indexed -> rn
          [] l.args.increment /\ l.args.pre_indexed -> Add32(rn, <<0, 4>>)
          [] ~l.args.increment /\ ~l.args.pre_indexed -> Add32(Add32(rn, Neg32(k)), <<0, 4>>)
          [] OTHER -> Add32(rn, Neg32(k))

\* The word the block load reads for the listed register r
LdmWord(c, l, r) ==
    ReadMem32(c, Add32(LdmFirst(c, l),
                       Word(4 * Cardinality({q \in l.args.rlist : q < r}))))

\* The listed registers are loaded from consecutive ascending word
\* addresses in ascending register order
LdmAscending(c, d, l) ==
    /\ d.accesses = [j \in 1 .. Cardinality(l.args.rlist) |->
                        Add32(LdmFirst(c, l), Word(4 * (j - 1)))]
    /\ \A r \in l.args.rlist \ {pc} :
          RegOfMode(d, IF LoadsUserRegs(l) THEN "User" ELSE l.mode, r) = LdmWord(c, l, r)
    /\ pc \in l.args.rlist
          => d.regs[pc] \in {And32(LdmWord(c, l, pc), Not32(<<0, 1>>)),
                             And32(LdmWord(c, l, pc), Not32(<<0, 3>>))}

\* The base register after a block load with writeback when it is not in
\* the list
LdmWrittenBack(c, l) ==
    IF l.args.increment
    THEN Add32(c.regs[l.args.n], Word(4 * Cardinality(l.args.rlist)))
    ELSE Add32(c.regs[l.args.n], Neg32(Word(4 * Cardinality(l.args.rlist))))

====
